---- MODULE Spec2Model ----
(***************************************************************************)
(* Permission gating for agent tools: security-level resolution, the       *)
(* permission store with its expiry rules, the permission hooks and the    *)
(* tool execution proxy.                                                   *)
(*                                                                         *)
(* JavaScript strings are sequences of one-character strings, so that the  *)
(* parsing of expiry specifications, JSON.stringify and the 32-bit hash of *)
(* the permission key are computed as the code computes them.  Optional    *)
(* values are tagged records: [t |-> "undefined"], [t |-> "num", v |-> n], *)
(* [t |-> "str", v |-> s].                                                 *)
(***************************************************************************)
EXTENDS Integers, Sequences, FiniteSets, TLC

VARIABLES
    store,      \* the Map of MemoryPermissionStore: key -> PermissionInfo
    now,        \* Date.now()
    last,       \* the last completed operation: its inputs and what it returned
    inv,        \* the proxied invocation in flight (createProxiedTool.execute)
    table,      \* the rows of PgPermissionStore's table: key -> row
    options,    \* the options the hooks and handlePermissionResponse are given
    sut         \* inputs and result of the pure functions under test

vars == <<store, now, last, inv, table, options, sut>>

----------------------------------------------------------------------------
(* JavaScript values *)

Undefined == [t |-> "undefined"]
Num(n) == [t |-> "num", v |-> n]
Str(s) == [t |-> "str", v |-> s]
\* a built-in function, by its name
Fn(name) == [t |-> "fn", name |-> name]

IsUndefined(x) == x.t = "undefined"

\* JavaScript truthiness of the values the model uses
Truthy(x) ==
    CASE x.t = "undefined" -> FALSE
      [] x.t = "null" -> FALSE
      [] x.t = "num" -> x.v # 0
      [] x.t = "str" -> x.v # <<>>
      [] OTHER -> TRUE

----------------------------------------------------------------------------
(* Characters: the printable ASCII table (codes 32..126), for              *)
(* String.charCodeAt; the entry "grave" holds the place of code 96, which  *)
(* no string of the model contains.                                        *)

Ascii ==
    << " ", "!", "\"", "#", "$", "%", "&", "'", "(", ")", "*", "+", ",", "-", ".", "/",
       "0", "1", "2", "3", "4", "5", "6", "7", "8", "9", ":", ";", "<", "=", ">", "?",
       "@", "A", "B", "C", "D", "E", "F", "G", "H", "I", "J", "K", "L", "M", "N", "O",
       "P", "Q", "R", "S", "T", "U", "V", "W", "X", "Y", "Z", "[", "\\", "]", "^", "_",
       "grave", "a", "b", "c", "d", "e", "f", "g", "h", "i", "j", "k", "l", "m", "n", "o",
       "p", "q", "r", "s", "t", "u", "v", "w", "x", "y", "z", "{", "|", "}", "~" >>

CharCodes == [c \in {Ascii[i] : i \in 1..Len(Ascii)} |-> 31 + CHOOSE i \in 1..Len(Ascii) : Ascii[i] = c]
charCodeAt(c) == CharCodes[c]

Digits == <<"0", "1", "2", "3", "4", "5", "6", "7", "8", "9">>
IsDigit(c) == c \in {"0", "1", "2", "3", "4", "5", "6", "7", "8", "9"}
DigitValue(c) == charCodeAt(c) - charCodeAt("0")

HexDigits == <<"0", "1", "2", "3", "4", "5", "6", "7", "8", "9", "a", "b", "c", "d", "e", "f">>

\* lexicographic order on code units, as Array.prototype.sort uses by default
RECURSIVE StrLess(_, _)
StrLess(a, b) ==
    IF b = <<>> THEN FALSE
    ELSE IF a = <<>> THEN TRUE
    ELSE IF charCodeAt(Head(a)) # charCodeAt(Head(b))
         THEN charCodeAt(Head(a)) < charCodeAt(Head(b))
    ELSE StrLess(Tail(a), Tail(b))

\* Number.prototype.toString(10) of a natural number
RECURSIVE NatToString(_)
NatToString(n) ==
    IF n < 10 THEN <<Digits[n + 1]>>
    ELSE NatToString(n \div 10) \o <<Digits[(n % 10) + 1]>>

\* String(n) of an integer
NumToString(n) == IF n < 0 THEN <<"-">> \o NatToString(0 - n) ELSE NatToString(n)

\* parseInt(s, 10) of a string of digits
RECURSIVE parseInt(_)
parseInt(s) ==
    IF s = <<>> THEN 0
    ELSE parseInt(SubSeq(s, 1, Len(s) - 1)) * 10 + DigitValue(s[Len(s)])

----------------------------------------------------------------------------
(* Strings *)

\* String.prototype.startsWith, endsWith, includes
startsWith(s, p) == Len(p) <= Len(s) /\ SubSeq(s, 1, Len(p)) = p
endsWith(s, p) == Len(p) <= Len(s) /\ SubSeq(s, Len(s) - Len(p) + 1, Len(s)) = p
includes(s, p) == \E i \in 0..(Len(s) - Len(p)) : SubSeq(s, i + 1, i + Len(p)) = p

\* String(x) for the primitive values of the model
JsString(x) ==
    CASE x.t = "str" -> x.v
      [] x.t = "num" -> NumToString(x.v)
      [] x.t = "fn" ->
            <<"f", "u", "n", "c", "t", "i", "o", "n", " ">> \o x.name
                \o <<"(", ")", " ", "{", " ", "[", "n", "a", "t", "i", "v", "e", " ",
                      "c", "o", "d", "e", "]", " ", "}">>
      [] OTHER -> <<"u", "n", "d", "e", "f", "i", "n", "e", "d">>

AllDigits(s) == \A i \in 1..Len(s) : IsDigit(s[i])

\* Number(x): [nan |-> TRUE] for NaN.  Of the strings, the empty string is 0, an
\* optional minus sign followed by digits is that integer, anything else of the
\* model's strings (letters) is NaN.
JsNumber(x) ==
    CASE x.t = "num" -> [nan |-> FALSE, v |-> x.v]
      [] x.t = "str" ->
            IF x.v = <<>> THEN [nan |-> FALSE, v |-> 0]
            ELSE IF AllDigits(x.v) THEN [nan |-> FALSE, v |-> parseInt(x.v)]
            ELSE IF Head(x.v) = "-" /\ Len(x.v) > 1 /\ AllDigits(Tail(x.v))
                 THEN [nan |-> FALSE, v |-> 0 - parseInt(Tail(x.v))]
            ELSE [nan |-> TRUE, v |-> 0]
      [] OTHER -> [nan |-> TRUE, v |-> 0]

----------------------------------------------------------------------------
(* Security levels: src/src/core/security-levels.ts *)

SecurityLevel == {"none", "low", "medium", "high", "critical"}
NoLevel == "undefined"
MaybeLevel == SecurityLevel \cup {NoLevel}

getSecurityLevelValue(level) ==
    CASE level = "none" -> 0
      [] level = "low" -> 1
      [] level = "medium" -> 2
      [] level = "high" -> 3
      [] level = "critical" -> 4
      [] OTHER -> -1

compareSecurityLevels(level1, level2) ==
    getSecurityLevelValue(level1) - getSecurityLevelValue(level2)

\* a variant of getHigherSecurityLevel that returns medium whenever one of the
\* two levels is missing
getHigherSecurityLevel_mediumWhenMissing(level1, level2) ==
    IF level1 = NoLevel \/ level2 = NoLevel THEN "medium"
    ELSE IF compareSecurityLevels(level1, level2) > 0 THEN level1 ELSE level2

getHigherSecurityLevel(level1, level2) ==
    IF level1 = NoLevel /\ level2 = NoLevel THEN "medium"
    ELSE IF level1 = NoLevel THEN level2
    ELSE IF level2 = NoLevel THEN level1
    ELSE IF compareSecurityLevels(level1, level2) > 0 THEN level1 ELSE level2

\* the handling of a level: {requirePermission, expiry?, requireConfirmation?}
Handling(req, exp, conf) ==
    [requirePermission |-> req, expiry |-> exp, requireConfirmation |-> conf]

S_once == <<"o", "n", "c", "e">>
S_session == <<"s", "e", "s", "s", "i", "o", "n">>
S_1h == <<"1", "h">>
S_24h == <<"2", "4", "h">>
S_7d == <<"7", "d">>

DEFAULT_SECURITY_LEVELS ==
    [level \in SecurityLevel |->
        CASE level = "none" -> Handling(FALSE, Undefined, FALSE)
          [] level = "low" -> Handling(TRUE, Str(S_24h), FALSE)
          [] level = "medium" -> Handling(TRUE, Str(S_1h), FALSE)
          [] level = "high" -> Handling(TRUE, Str(S_session), FALSE)
          [] level = "critical" -> Handling(TRUE, Str(S_once), TRUE)]

----------------------------------------------------------------------------
(* Parameter rules: src/src/rules/rule-evaluator.ts *)

S_constructor == <<"c", "o", "n", "s", "t", "r", "u", "c", "t", "o", "r">>
S_toString == <<"t", "o", "S", "t", "r", "i", "n", "g">>

\* the properties an object literal inherits from Object.prototype, of the
\* names the model uses
ObjectPrototype ==
    (S_constructor :> Fn(<<"O", "b", "j", "e", "c", "t">>))
    @@ (S_toString :> Fn(S_toString))

\* An argument bag is a sequence of [k, v] pairs with distinct keys, in insertion
\* order: the own properties of the object.  params[name] is the own property
\* of that name, else the property inherited from Object.prototype, else
\* undefined.
RECURSIVE GetParam(_, _)
GetParam(params, name) ==
    IF params = <<>>
    THEN IF name \in DOMAIN ObjectPrototype THEN ObjectPrototype[name] ELSE Undefined
    ELSE IF Head(params).k = name THEN Head(params).v
    ELSE GetParam(Tail(params), name)

ParameterRule(param, condition, value, level, message) ==
    [param |-> param, condition |-> condition, value |-> value,
     securityLevel |-> level, message |-> message]

\* new RegExp(pattern): of the model's patterns, those without a metacharacter
\* (other than a leading ^ and a trailing $) compile; "(" does not.
RegexMeta == {"(", ")", "[", "]", "*", "+", "?", "\\", "{", "}", "|", "."}
RegexCompiles(p) == \A i \in 1..Len(p) : p[i] \notin RegexMeta
RegexBody(p) ==
    LET a == IF p # <<>> /\ Head(p) = "^" THEN Tail(p) ELSE p
    IN IF a # <<>> /\ a[Len(a)] = "$" THEN SubSeq(a, 1, Len(a) - 1) ELSE a
RegexTest(p, s) ==
    LET atStart == p # <<>> /\ Head(p) = "^"
        atEnd == p # <<>> /\ p[Len(p)] = "$" /\ ~(Len(p) = 1 /\ atStart)
        body == RegexBody(p)
    IN CASE atStart /\ atEnd -> s = body
         [] atStart -> startsWith(s, body)
         [] atEnd -> endsWith(s, body)
         [] OTHER -> includes(s, body)

\* a variant of evaluateRule that takes a pattern that does not compile for a
\* match
evaluateRule_badPatternMatches(rule, params) ==
    LET paramValue == GetParam(params, rule.param)
    IN IF IsUndefined(paramValue) THEN FALSE
       ELSE CASE rule.condition = "equals" -> paramValue = rule.value
              [] rule.condition = "contains" ->
                    includes(JsString(paramValue), JsString(rule.value))
              [] rule.condition = "startsWith" ->
                    startsWith(JsString(paramValue), JsString(rule.value))
              [] rule.condition = "endsWith" ->
                    endsWith(JsString(paramValue), JsString(rule.value))
              [] rule.condition = "regex" ->
                    IF RegexCompiles(JsString(rule.value))
                    THEN RegexTest(JsString(rule.value), JsString(paramValue))
                    ELSE TRUE
              [] rule.condition = "greaterThan" ->
                    LET a == JsNumber(paramValue)
                        b == JsNumber(rule.value)
                    IN ~a.nan /\ ~b.nan /\ a.v > b.v
              [] rule.condition = "lessThan" ->
                    LET a == JsNumber(paramValue)
                        b == JsNumber(rule.value)
                    IN ~a.nan /\ ~b.nan /\ a.v < b.v
              [] OTHER -> FALSE

evaluateRule(rule, params) ==
    LET paramValue == GetParam(params, rule.param)
    IN IF IsUndefined(paramValue) THEN FALSE
       ELSE CASE rule.condition = "equals" -> paramValue = rule.value
              [] rule.condition = "contains" ->
                    includes(JsString(paramValue), JsString(rule.value))
              [] rule.condition = "startsWith" ->
                    startsWith(JsString(paramValue), JsString(rule.value))
              [] rule.condition = "endsWith" ->
                    endsWith(JsString(paramValue), JsString(rule.value))
              [] rule.condition = "regex" ->
                    IF RegexCompiles(JsString(rule.value))
                    THEN RegexTest(JsString(rule.value), JsString(paramValue))
                    ELSE FALSE
              [] rule.condition = "greaterThan" ->
                    LET a == JsNumber(paramValue)
                        b == JsNumber(rule.value)
                    IN ~a.nan /\ ~b.nan /\ a.v > b.v
              [] rule.condition = "lessThan" ->
                    LET a == JsNumber(paramValue)
                        b == JsNumber(rule.value)
                    IN ~a.nan /\ ~b.nan /\ a.v < b.v
              [] OTHER -> FALSE

\* the loop of evaluateParameterRules over the rules of the tool, from the
\* accumulated result acc
RECURSIVE EvaluateLoop(_, _, _)
EvaluateLoop(toolRules, params, acc) ==
    IF toolRules = <<>> THEN acc
    ELSE LET rule == Head(toolRules)
             next ==
                 IF evaluateRule(rule, params)
                 THEN [securityLevel |->
                          IF rule.securityLevel # NoLevel
                          THEN getHigherSecurityLevel(acc.securityLevel, rule.securityLevel)
                          ELSE acc.securityLevel,
                       message |-> IF Truthy(rule.message) THEN rule.message ELSE acc.message,
                       matchedRules |-> Append(acc.matchedRules, rule)]
                 ELSE acc
         IN EvaluateLoop(Tail(toolRules), params, next)

\* variants of the loop: with lastLevel the level of the last matching rule
\* replaces the accumulated one, with firstMessage the first message is kept
RECURSIVE EvaluateLoop_variant(_, _, _, _, _)
EvaluateLoop_variant(toolRules, params, acc, lastLevel, firstMessage) ==
    IF toolRules = <<>> THEN acc
    ELSE LET rule == Head(toolRules)
             next ==
                 IF evaluateRule(rule, params)
                 THEN [securityLevel |->
                          IF rule.securityLevel # NoLevel
                          THEN IF lastLevel THEN rule.securityLevel
                               ELSE getHigherSecurityLevel(acc.securityLevel,
                                                           rule.securityLevel)
                          ELSE acc.securityLevel,
                       message |->
                          IF Truthy(rule.message) /\ ~(firstMessage /\ Truthy(acc.message))
                          THEN rule.message ELSE acc.message,
                       matchedRules |-> Append(acc.matchedRules, rule)]
                 ELSE acc
         IN EvaluateLoop_variant(Tail(toolRules), params, next, lastLevel, firstMessage)

\* a variant of evaluateParameterRules that returns the level of the last
\* matching rule with a level
evaluateParameterRules_lastLevelWins(toolName, params, rules) ==
    LET toolRules == IF toolName \in DOMAIN rules THEN rules[toolName] ELSE <<>>
    IN EvaluateLoop_variant(toolRules, params,
                            [securityLevel |-> NoLevel, message |-> Undefined,
                             matchedRules |-> <<>>], TRUE, FALSE)

\* a variant of evaluateParameterRules that returns the message of the first
\* matching rule with a message
evaluateParameterRules_firstMessageWins(toolName, params, rules) ==
    LET toolRules == IF toolName \in DOMAIN rules THEN rules[toolName] ELSE <<>>
    IN EvaluateLoop_variant(toolRules, params,
                            [securityLevel |-> NoLevel, message |-> Undefined,
                             matchedRules |-> <<>>], FALSE, TRUE)

\* rules: a function from tool names to sequences of rules
evaluateParameterRules(toolName, params, rules) ==
    LET toolRules == IF toolName \in DOMAIN rules THEN rules[toolName] ELSE <<>>
    IN EvaluateLoop(toolRules, params,
                    [securityLevel |-> NoLevel, message |-> Undefined, matchedRules |-> <<>>])


----------------------------------------------------------------------------
(* Security policy and level resolution: src/unnamed/part_014 (core/hooks.ts) *)

Obj(pairs) == [t |-> "obj", v |-> pairs]

ToolMetadata(level, category, permissionMessage) ==
    [securityLevel |-> level, category |-> category, permissionMessage |-> permissionMessage]

\* securityPolicy.tools[toolName] || {}
EmptyMetadata == ToolMetadata(NoLevel, Undefined, Undefined)
MetadataOf(securityPolicy, toolName) ==
    IF toolName \in DOMAIN securityPolicy.tools
    THEN securityPolicy.tools[toolName]
    ELSE EmptyMetadata

\* securityPolicy.categories[category]?.securityLevel
CategoryLevel(securityPolicy, category) ==
    IF category \in DOMAIN securityPolicy.categories
    THEN securityPolicy.categories[category]
    ELSE NoLevel

\* a variant of determineSecurityLevel in which the level of a matching rule
\* replaces the base level whether it is higher or not
determineSecurityLevel_ruleOverrides(toolName, metadata, params, securityPolicy) ==
    LET explicit == metadata.securityLevel
        base ==
            IF explicit = NoLevel /\ Truthy(metadata.category)
            THEN CategoryLevel(securityPolicy, metadata.category.v)
            ELSE explicit
        paramEvaluation ==
            evaluateParameterRules(toolName, params.v, securityPolicy.parameterRules)
        securityLevel ==
            IF securityPolicy.hasParameterRules /\ paramEvaluation.securityLevel # NoLevel
            THEN paramEvaluation.securityLevel
            ELSE base
    IN IF securityLevel = NoLevel THEN "medium" ELSE securityLevel

\* a variant of determineSecurityLevel in which the category of the tool counts
\* even when the tool has a level of its own: the higher of the two is the base
determineSecurityLevel_categoryCounts(toolName, metadata, params, securityPolicy) ==
    LET explicit == metadata.securityLevel
        ofCategory ==
            IF Truthy(metadata.category)
            THEN CategoryLevel(securityPolicy, metadata.category.v)
            ELSE NoLevel
        base ==
            IF compareSecurityLevels(ofCategory, explicit) > 0 THEN ofCategory ELSE explicit
        paramEvaluation ==
            evaluateParameterRules(toolName, params.v, securityPolicy.parameterRules)
        securityLevel ==
            IF securityPolicy.hasParameterRules
               /\ paramEvaluation.securityLevel # NoLevel
               /\ compareSecurityLevels(paramEvaluation.securityLevel, base) > 0
            THEN paramEvaluation.securityLevel
            ELSE base
    IN IF securityLevel = NoLevel THEN "medium" ELSE securityLevel

\* if (paramEvaluation.securityLevel) { if (compareSecurityLevels(...) > 0) ... }
Escalated(securityLevel, ruleLevel) ==
    IF ruleLevel # NoLevel /\ compareSecurityLevels(ruleLevel, securityLevel) > 0
    THEN ruleLevel
    ELSE securityLevel

\* securityLevel || SecurityLevel.MEDIUM
OrMedium(securityLevel) == IF securityLevel = NoLevel THEN "medium" ELSE securityLevel

determineSecurityLevel(toolName, metadata, params, securityPolicy) ==
    LET explicit == metadata.securityLevel
        base ==
            IF explicit = NoLevel /\ Truthy(metadata.category)
            THEN CategoryLevel(securityPolicy, metadata.category.v)
            ELSE explicit
        ruleLevel ==
            IF securityPolicy.hasParameterRules
            THEN evaluateParameterRules(toolName, params.v,
                                        securityPolicy.parameterRules).securityLevel
            ELSE NoLevel
    IN OrMedium(Escalated(base, ruleLevel))

\* a variant of HandlingOf that falls back to the built-in entry of medium for
\* every level
HandlingOf_mediumFallback(securityPolicy, securityLevel) ==
    IF securityLevel \in DOMAIN securityPolicy.defaults
    THEN securityPolicy.defaults[securityLevel]
    ELSE DEFAULT_SECURITY_LEVELS["medium"]

\* securityPolicy.defaults[securityLevel] || DEFAULT_SECURITY_LEVELS[securityLevel]
HandlingOf(securityPolicy, securityLevel) ==
    IF securityLevel \in DOMAIN securityPolicy.defaults
    THEN securityPolicy.defaults[securityLevel]
    ELSE DEFAULT_SECURITY_LEVELS[securityLevel]

----------------------------------------------------------------------------
(* Permission keys: src/unnamed/part_015 (core/store.ts) *)

RECURSIVE InsertSorted(_, _)
InsertSorted(sorted, k) ==
    IF sorted = <<>> THEN <<k>>
    ELSE IF StrLess(k, Head(sorted)) THEN <<k>> \o sorted
    ELSE <<Head(sorted)>> \o InsertSorted(Tail(sorted), k)

\* a variant of SortedKeys that leaves the keys in their insertion order
SortedKeys_insertionOrder(pairs) == [i \in 1..Len(pairs) |-> pairs[i].k]

\* Object.keys(params).sort()
RECURSIVE SortedKeys(_)
SortedKeys(pairs) ==
    IF pairs = <<>> THEN <<>>
    ELSE InsertSorted(SortedKeys(SubSeq(pairs, 1, Len(pairs) - 1)), pairs[Len(pairs)].k)

\* JSON's quoting of a string: the quote and the backslash are escaped
RECURSIVE JsonEscape(_)
JsonEscape(s) ==
    IF s = <<>> THEN <<>>
    ELSE (IF Head(s) \in {"\"", "\\"} THEN <<"\\", Head(s)>> ELSE <<Head(s)>>)
         \o JsonEscape(Tail(s))
JsonQuote(s) == <<"\"">> \o JsonEscape(s) \o <<"\"">>

RECURSIVE JoinComma(_)
JoinComma(parts) ==
    IF parts = <<>> THEN <<>>
    ELSE IF Len(parts) = 1 THEN parts[1]
    ELSE parts[1] \o <<",">> \o JoinComma(Tail(parts))

RECURSIVE JsonValue(_, _), JsonMembers(_, _)

\* JSON.stringify of a value under the replacer array keys: an object, at any
\* depth, is written with the properties that keys names and no others
JsonValue(x, keys) ==
    CASE x.t = "num" -> NumToString(x.v)
      [] x.t = "str" -> JsonQuote(x.v)
      [] x.t = "obj" -> <<"{">> \o JoinComma(JsonMembers(x.v, keys)) \o <<"}">>
      [] OTHER -> <<"n", "u", "l", "l">>

\* the members of an object under the replacer array keys: the properties named
\* by keys, in the order of keys; a property whose value is undefined or a
\* function is left out
JsonMembers(pairs, keys) ==
    IF keys = <<>> THEN <<>>
    ELSE LET x == GetParam(pairs, Head(keys))
             rest == JsonMembers(pairs, Tail(keys))
         IN IF x.t \in {"undefined", "fn"} THEN rest
            ELSE <<JsonQuote(Head(keys)) \o <<":">> \o JsonValue(x, keys)>> \o rest

\* JSON.stringify(params, Object.keys(params).sort())
JsonStringify(pairs) == JsonValue(Obj(pairs), SortedKeys(pairs))

\* hash = ((hash << 5) - hash + char) & 0xffffffff on a 32-bit value kept as two
\* 16-bit halves [hi, lo]
Half == 65536
HashStep(h, c) ==
    LET lo == h.lo * 31 + c
        hi == h.hi * 31 + (lo \div Half)
    IN [hi |-> hi % Half, lo |-> lo % Half]

RECURSIVE HashLoop(_, _)
HashLoop(s, h) ==
    IF s = <<>> THEN h ELSE HashLoop(Tail(s), HashStep(h, charCodeAt(Head(s))))

\* Math.abs of the signed 32-bit value
HashAbs(h) ==
    IF h.hi < Half \div 2 THEN h
    ELSE [hi |-> (Half - 1 - h.hi + (IF h.lo = 0 THEN 1 ELSE 0)) % Half,
          lo |-> (Half - h.lo) % Half]

RECURSIVE NatToHex(_)
NatToHex(n) ==
    IF n < 16 THEN <<HexDigits[n + 1]>>
    ELSE NatToHex(n \div 16) \o <<HexDigits[(n % 16) + 1]>>

\* lo as exactly four hex digits
Hex4(n) ==
    <<HexDigits[(n \div 4096) + 1], HexDigits[((n \div 256) % 16) + 1],
      HexDigits[((n \div 16) % 16) + 1], HexDigits[(n % 16) + 1]>>

\* Number.prototype.toString(16)
HashToHex(h) == IF h.hi = 0 THEN NatToHex(h.lo) ELSE NatToHex(h.hi) \o Hex4(h.lo)

hashParams(pairs) == HashToHex(HashAbs(HashLoop(JsonStringify(pairs), [hi |-> 0, lo |-> 0])))

\* the argument bags of the model, and their hashes computed once
S_to == <<"t", "o">>
S_Aa == <<"A", "a">>
S_BB == <<"B", "B">>
Pair(k, v) == [k |-> k, v |-> v]
ArgBags == { <<>>, <<Pair(S_to, Str(S_Aa))>>, <<Pair(S_to, Str(S_BB))>> }
HashOfBag == [pairs \in ArgBags |-> hashParams(pairs)]

generatePermissionKey(userId, toolName, params) ==
    LET key == userId \o <<":">> \o toolName
    IN IF ~IsUndefined(params) /\ Len(params.v) > 0
       THEN key \o <<":">> \o (IF params.v \in ArgBags
                                THEN HashOfBag[params.v]
                                ELSE hashParams(params.v))
       ELSE key


----------------------------------------------------------------------------
(* MemoryPermissionStore: src/src/storage/memory-store.ts *)

Null == [t |-> "null"]

PermissionInfo(granted, expiresAt, grantedAt, metadata) ==
    [t |-> "info", granted |-> granted, expiresAt |-> expiresAt,
     grantedAt |-> grantedAt, metadata |-> metadata]

MapSet(map, key, value) ==
    [k \in (DOMAIN map) \cup {key} |-> IF k = key THEN value ELSE map[k]]
MapDelete(map, key) == [k \in (DOMAIN map) \ {key} |-> map[k]]
EmptyMap == [k \in {} |-> Null]

\* map.get(key), null when there is none
Lookup(map, key) == IF key \in DOMAIN map THEN map[key] ELSE Null

\* expiresIn.match(/^(\d+)([mhd])$/)
MatchesCustom(expiresIn) ==
    /\ Len(expiresIn) >= 2
    /\ expiresIn[Len(expiresIn)] \in {"m", "h", "d"}
    /\ AllDigits(SubSeq(expiresIn, 1, Len(expiresIn) - 1))

UnitMs(unit) ==
    CASE unit = "m" -> 60 * 1000
      [] unit = "h" -> 60 * 60 * 1000
      [] unit = "d" -> 24 * 60 * 60 * 1000

\* a variant of calculateExpiresAt that counts the hours of a custom period as
\* minutes
calculateExpiresAt_hoursAsMinutes(expiresIn, at) ==
    CASE expiresIn = S_once -> Undefined
      [] expiresIn = S_session -> Num(at + 24 * 60 * 60 * 1000)
      [] expiresIn = S_1h -> Num(at + 60 * 60 * 1000)
      [] expiresIn = S_24h -> Num(at + 24 * 60 * 60 * 1000)
      [] expiresIn = S_7d -> Num(at + 7 * 24 * 60 * 60 * 1000)
      [] OTHER ->
            IF MatchesCustom(expiresIn)
            THEN Num(at + parseInt(SubSeq(expiresIn, 1, Len(expiresIn) - 1))
                          * (IF expiresIn[Len(expiresIn)] = "d"
                             THEN 24 * 60 * 60 * 1000 ELSE 60 * 1000))
            ELSE Undefined

calculateExpiresAt(expiresIn, at) ==
    CASE expiresIn = S_once -> Undefined
      [] expiresIn = S_session -> Num(at + 24 * 60 * 60 * 1000)
      [] expiresIn = S_1h -> Num(at + 60 * 60 * 1000)
      [] expiresIn = S_24h -> Num(at + 24 * 60 * 60 * 1000)
      [] expiresIn = S_7d -> Num(at + 7 * 24 * 60 * 60 * 1000)
      [] OTHER ->
            IF MatchesCustom(expiresIn)
            THEN Num(at + parseInt(SubSeq(expiresIn, 1, Len(expiresIn) - 1))
                          * UnitMs(expiresIn[Len(expiresIn)]))
            ELSE Undefined

\* permission.expiresAt && permission.expiresAt < Date.now()
IsExpired(expiresAt, at) == Truthy(expiresAt) /\ expiresAt.v < at

\* a variant of getPermission that answers null for an expired record and
\* leaves it in the Map
getPermission_keepsExpired(map, key, at) ==
    IF key \notin DOMAIN map THEN [result |-> Null, store |-> map]
    ELSE IF IsExpired(map[key].expiresAt, at)
         THEN [result |-> Null, store |-> map]
    ELSE [result |-> map[key], store |-> map]

\* returns [result, store]: what the call returns and the Map after it
getPermission(map, key, at) ==
    IF key \notin DOMAIN map THEN [result |-> Null, store |-> map]
    ELSE IF IsExpired(map[key].expiresAt, at)
         THEN [result |-> Null, store |-> MapDelete(map, key)]
    ELSE [result |-> map[key], store |-> map]

\* a variant of setPermission that stores a 'once' record like any other
setPermission_storesOnce(map, key, granted, expiresIn, metadata, at) ==
    MapSet(map, key,
           PermissionInfo(granted,
                          IF Truthy(expiresIn)
                          THEN calculateExpiresAt(expiresIn.v, at)
                          ELSE Undefined,
                          at, metadata))

\* a variant of setPermission that gives a record written without expiresIn the
\* expiry of a session
setPermission_defaultSession(map, key, granted, expiresIn, metadata, at) ==
    IF Truthy(expiresIn) /\ expiresIn.v = S_once THEN map
    ELSE MapSet(map, key,
                PermissionInfo(granted,
                               IF Truthy(expiresIn)
                               THEN calculateExpiresAt(expiresIn.v, at)
                               ELSE calculateExpiresAt(S_session, at),
                               at, metadata))

\* returns the Map after the call
setPermission(map, key, granted, expiresIn, metadata, at) ==
    IF Truthy(expiresIn) /\ expiresIn.v = S_once THEN map
    ELSE MapSet(map, key,
                PermissionInfo(granted,
                               IF Truthy(expiresIn)
                               THEN calculateExpiresAt(expiresIn.v, at)
                               ELSE Undefined,
                               at, metadata))

removePermission(map, key) == MapDelete(map, key)

\* a variant of clearExpiredPermissions that also removes the records without
\* expiresAt
clearExpiredPermissions_dropsUndated(map, at) ==
    [k \in {x \in DOMAIN map : Truthy(map[x].expiresAt) /\ ~(map[x].expiresAt.v < at)}
        |-> map[k]]

\* a variant of clearExpiredPermissions that also removes the records that
\* expire at the instant of the sweep
clearExpiredPermissions_dropsDue(map, at) ==
    [k \in {x \in DOMAIN map : ~(Truthy(map[x].expiresAt) /\ map[x].expiresAt.v <= at)}
        |-> map[k]]

clearExpiredPermissions(map, at) ==
    [k \in {x \in DOMAIN map : ~IsExpired(map[x].expiresAt, at)} |-> map[k]]

----------------------------------------------------------------------------
(* PgPermissionStore: src/src/storage/pg-permission-store.ts.  The table is   *)
(* modelled by its rows; every statement is atomic.                          *)

Row(granted, expires_at, granted_at, metadata) ==
    [t |-> "row", granted |-> granted, expires_at |-> expires_at,
     granted_at |-> granted_at, metadata |-> metadata]

\* x || undefined, for a column value that is NULL or a value
OrUndefined(x) == IF x.t = "null" \/ ~Truthy(x) THEN Undefined ELSE x

\* DELETE FROM table WHERE key = $1
pgRemovePermission(rows, key) == MapDelete(rows, key)

pgGetPermission(rows, key, at) ==
    IF key \notin DOMAIN rows THEN [result |-> Null, store |-> rows]
    ELSE LET row == rows[key]
         IN IF row.expires_at.t # "null" /\ IsExpired(row.expires_at, at)
            THEN [result |-> Null, store |-> pgRemovePermission(rows, key)]
            ELSE [result |-> PermissionInfo(row.granted, OrUndefined(row.expires_at),
                                            row.granted_at, OrUndefined(row.metadata)),
                  store |-> rows]

\* a variant of pgExpiresAt that counts the days of a custom period as hours
pgExpiresAt_daysAsHours(expiresIn, at) ==
    IF ~Truthy(expiresIn) THEN Null
    ELSE CASE expiresIn.v = S_session -> Num(at + 24 * 60 * 60 * 1000)
           [] expiresIn.v = S_1h -> Num(at + 60 * 60 * 1000)
           [] expiresIn.v = S_24h -> Num(at + 24 * 60 * 60 * 1000)
           [] expiresIn.v = S_7d -> Num(at + 7 * 24 * 60 * 60 * 1000)
           [] OTHER ->
                 IF MatchesCustom(expiresIn.v)
                 THEN Num(at + parseInt(SubSeq(expiresIn.v, 1, Len(expiresIn.v) - 1))
                               * (IF expiresIn.v[Len(expiresIn.v)] = "m"
                                  THEN 60 * 1000 ELSE 60 * 60 * 1000))
                 ELSE Null

pgExpiresAt(expiresIn, at) ==
    IF ~Truthy(expiresIn) THEN Null
    ELSE CASE expiresIn.v = S_session -> Num(at + 24 * 60 * 60 * 1000)
           [] expiresIn.v = S_1h -> Num(at + 60 * 60 * 1000)
           [] expiresIn.v = S_24h -> Num(at + 24 * 60 * 60 * 1000)
           [] expiresIn.v = S_7d -> Num(at + 7 * 24 * 60 * 60 * 1000)
           [] OTHER ->
                 IF MatchesCustom(expiresIn.v)
                 THEN Num(at + parseInt(SubSeq(expiresIn.v, 1, Len(expiresIn.v) - 1))
                               * UnitMs(expiresIn.v[Len(expiresIn.v)]))
                 ELSE Null

\* a variant of pgSetPermission whose update of an existing row leaves granted_at
\* and metadata as they were
pgSetPermission_keepsGrantedAt(rows, key, granted, expiresIn, metadata, at) ==
    IF expiresIn = Str(S_once) THEN rows
    ELSE IF key \in DOMAIN rows
         THEN MapSet(rows, key,
                     Row(granted, pgExpiresAt(expiresIn, at), rows[key].granted_at,
                         rows[key].metadata))
    ELSE MapSet(rows, key,
                Row(granted, pgExpiresAt(expiresIn, at), at,
                    IF Truthy(metadata) THEN metadata ELSE Null))

\* INSERT ... ON CONFLICT (key) DO UPDATE
pgSetPermission(rows, key, granted, expiresIn, metadata, at) ==
    IF expiresIn = Str(S_once) THEN rows
    ELSE MapSet(rows, key,
                Row(granted, pgExpiresAt(expiresIn, at), at,
                    IF Truthy(metadata) THEN metadata ELSE Null))

\* DELETE FROM table WHERE expires_at IS NOT NULL AND expires_at < $1
pgClearExpiredPermissions(rows, at) ==
    [k \in {x \in DOMAIN rows :
                ~(rows[x].expires_at.t # "null" /\ rows[x].expires_at.v < at)} |-> rows[k]]


----------------------------------------------------------------------------
(* Permission hooks: src/unnamed/part_014 (core/hooks.ts) *)

S_anonymous == <<"a", "n", "o", "n", "y", "m", "o", "u", "s">>

\* the default getIdentifier: context.resourceId || "anonymous"
getIdentifier(context) ==
    IF Truthy(context.resourceId) THEN context.resourceId.v ELSE S_anonymous

\* the generic reason, `${toolName}ツールの実行には許可が必要です`
GenericReason(toolName) == [t |-> "text", about |-> toolName, text |-> "permission is required"]

createPermissionResponse(toolName, parameters, securityLevel, metadata, policy) ==
    [status |-> "permission_required",
     toolName |-> toolName,
     parameters |-> parameters,
     securityLevel |-> securityLevel,
     reason |-> IF Truthy(metadata.permissionMessage)
                THEN metadata.permissionMessage
                ELSE GenericReason(toolName),
     policy |-> [expiry |-> policy.expiry,
                 requireConfirmation |-> policy.requireConfirmation]]

NoResponse == [status |-> "none"]

\* what a call resolves before the store is looked at: the metadata of the tool,
\* the level, the handling of the level and the key of the permission
Resolution(securityPolicy, metadata, securityLevel, permissionKey) ==
    [metadata |-> metadata,
     securityLevel |-> securityLevel,
     policy |-> HandlingOf(securityPolicy, securityLevel),
     permissionKey |-> permissionKey]

\* beforeExecution: identifier, metadata, securityLevel, policy, permissionKey
beforeResolution(securityPolicy, toolName, params, context) ==
    Resolution(securityPolicy,
               MetadataOf(securityPolicy, toolName),
               determineSecurityLevel(toolName, MetadataOf(securityPolicy, toolName),
                                      params, securityPolicy),
               generatePermissionKey(getIdentifier(context), toolName, params))

\* a variant of responseResolution whose key leaves the arguments out
responseResolution_keyWithoutArgs(securityPolicy, toolName, parameters, context) ==
    Resolution(securityPolicy,
               MetadataOf(securityPolicy, toolName),
               determineSecurityLevel(toolName, MetadataOf(securityPolicy, toolName),
                                      parameters, securityPolicy),
               generatePermissionKey(getIdentifier(context), toolName, Undefined))

\* handlePermissionResponse: identifier, metadata, securityLevel, policy,
\* permissionKey
responseResolution(securityPolicy, toolName, parameters, context) ==
    Resolution(securityPolicy,
               MetadataOf(securityPolicy, toolName),
               determineSecurityLevel(toolName, MetadataOf(securityPolicy, toolName),
                                      parameters, securityPolicy),
               generatePermissionKey(getIdentifier(context), toolName, parameters))

\* a variant of beforeExecution that lets the call through on any stored record,
\* granted or not
beforeExecution_anyRecord(securityPolicy, opts, map, at, toolName, params, context) ==
    LET identifier == getIdentifier(context)
        metadata == MetadataOf(securityPolicy, toolName)
        securityLevel == determineSecurityLevel(toolName, metadata, params, securityPolicy)
        policy == HandlingOf(securityPolicy, securityLevel)
        permissionKey == generatePermissionKey(identifier, toolName, params)
        got == getPermission(map, permissionKey, at)
    IN IF ~policy.requirePermission
       THEN [continue |-> TRUE, response |-> NoResponse, store |-> map,
             read |-> FALSE, requested |-> FALSE]
       ELSE IF opts.hasStore /\ got.result # Null
            THEN [continue |-> TRUE, response |-> NoResponse, store |-> got.store,
                  read |-> TRUE, requested |-> FALSE]
       ELSE [continue |-> FALSE,
             response |-> createPermissionResponse(toolName, params, securityLevel,
                                                   metadata, policy),
             store |-> IF opts.hasStore THEN got.store ELSE map,
             read |-> opts.hasStore, requested |-> TRUE]

\* a variant of beforeExecutionAt that, when it asks for permission, also writes a
\* grant for the key
beforeExecutionAt_grantsOnAsk(opts, map, toolName, params, resolved, got) ==
    IF ~resolved.policy.requirePermission
    THEN [continue |-> TRUE, response |-> NoResponse, store |-> map,
          read |-> FALSE, requested |-> FALSE]
    ELSE IF opts.hasStore /\ got.result # Null /\ got.result.granted
         THEN [continue |-> TRUE, response |-> NoResponse, store |-> got.store,
               read |-> TRUE, requested |-> FALSE]
    ELSE [continue |-> FALSE,
          response |-> createPermissionResponse(toolName, params, resolved.securityLevel,
                                                resolved.metadata, resolved.policy),
          store |-> IF opts.hasStore
                    THEN MapSet(got.store, resolved.permissionKey,
                                PermissionInfo(TRUE, Undefined, 0, Undefined))
                    ELSE map,
          read |-> opts.hasStore, requested |-> TRUE]

\* a variant of beforeExecutionAt that looks the record up before it tests
\* requirePermission, and asks when the record is a denial
beforeExecutionAt_denialBlocks(opts, map, toolName, params, resolved, got) ==
    IF opts.hasStore /\ got.result # Null /\ ~got.result.granted
    THEN [continue |-> FALSE,
          response |-> createPermissionResponse(toolName, params, resolved.securityLevel,
                                                resolved.metadata, resolved.policy),
          store |-> got.store, read |-> TRUE, requested |-> TRUE]
    ELSE IF ~resolved.policy.requirePermission
    THEN [continue |-> TRUE, response |-> NoResponse, store |-> map,
          read |-> FALSE, requested |-> FALSE]
    ELSE IF opts.hasStore /\ got.result # Null /\ got.result.granted
         THEN [continue |-> TRUE, response |-> NoResponse, store |-> got.store,
               read |-> TRUE, requested |-> FALSE]
    ELSE [continue |-> FALSE,
          response |-> createPermissionResponse(toolName, params, resolved.securityLevel,
                                                resolved.metadata, resolved.policy),
          store |-> IF opts.hasStore THEN got.store ELSE map,
          read |-> opts.hasStore, requested |-> TRUE]

\* hooks.beforeExecution of createPermissionHooks(securityPolicy, opts).
\* options.store is the Map `map` when opts.hasStore.  Returns what the call
\* returns (continue, response), the Map after it, whether the store was read
\* and whether onPermissionRequest was fired.  beforeExecutionAt is the part
\* of it from the test of policy.requirePermission on: resolved is what the call
\* has resolved and got what store.getPermission(permissionKey) gives.
beforeExecutionAt(opts, map, toolName, params, resolved, got) ==
    IF ~resolved.policy.requirePermission
    THEN [continue |-> TRUE, response |-> NoResponse, store |-> map,
          read |-> FALSE, requested |-> FALSE]
    ELSE IF opts.hasStore /\ got.result # Null /\ got.result.granted
         THEN [continue |-> TRUE, response |-> NoResponse, store |-> got.store,
               read |-> TRUE, requested |-> FALSE]
    ELSE [continue |-> FALSE,
          response |-> createPermissionResponse(toolName, params, resolved.securityLevel,
                                                resolved.metadata, resolved.policy),
          store |-> IF opts.hasStore THEN got.store ELSE map,
          read |-> opts.hasStore, requested |-> TRUE]

beforeExecutionFrom(opts, map, at, toolName, params, resolved) ==
    beforeExecutionAt(opts, map, toolName, params, resolved,
                      getPermission(map, resolved.permissionKey, at))

beforeExecution(securityPolicy, opts, map, at, toolName, params, context) ==
    beforeExecutionFrom(opts, map, at, toolName, params,
                        beforeResolution(securityPolicy, toolName, params, context))

\* hooks.afterExecution: the result, passed through
\* a variant of afterExecution that returns the name of the tool
afterExecution_returnsName(toolName, result, context) == Str(toolName)

afterExecution(toolName, result, context) == result

\* what an awaited call gives: the value it resolves to, or the value it throws
Returned(value) == [threw |-> FALSE, value |-> value, error |-> NoResponse]
Thrown(error) == [threw |-> TRUE, value |-> NoResponse, error |-> error]

\* error.message for a value caught by `catch (error)`: the message of an
\* Error, undefined for a string or a number; the read itself throws a TypeError
\* on null and undefined
HasProperties(error) == error \notin {Null, Undefined}
MessageOf(error) == IF "message" \in DOMAIN error THEN error.message ELSE Undefined
CannotReadMessage ==
    [name |-> "TypeError",
     message |-> [t |-> "text", about |-> <<"m", "e", "s", "s", "a", "g", "e">>,
                  text |-> "Cannot read properties of null or undefined"]]

\* a variant of onError that throws the error it was given
onError_rethrows(toolName, error, context) == Thrown(error)

\* hooks.onError
onError(toolName, error, context) ==
    IF ~HasProperties(error) THEN Thrown(CannotReadMessage)
    ELSE Returned([status |-> "error", toolName |-> toolName, error |-> MessageOf(error),
                   message |-> [t |-> "text", about |-> toolName,
                                text |-> MessageOf(error)]])

\* a variant of handlePermissionResponse that answers an approval without
\* writing it to the store
handlePermissionResponse_approvalNotStored(securityPolicy, opts, map, at, toolName, parameters, approved, context) ==
    LET identifier == getIdentifier(context)
        permissionKey == generatePermissionKey(identifier, toolName, parameters)
    IN IF approved
       THEN [response |-> [status |-> "success", toolName |-> toolName],
             store |-> map,
             notified |-> "granted"]
       ELSE [response |-> [status |-> "denied", toolName |-> toolName],
             store |-> IF opts.hasStore
                       THEN setPermission(map, permissionKey, FALSE, Undefined,
                                          [t |-> "meta", deniedAt |-> at], at)
                       ELSE map,
             notified |-> "denied"]

\* a variant of handlePermissionResponseAt that keeps approvals in a Map of its
\* own when it was given no store
handlePermissionResponseAt_remembersWithoutStore(opts, map, at, toolName, approved, policy, permissionKey) ==
    IF approved
    THEN [response |-> [status |-> "success", toolName |-> toolName],
          store |-> setPermission(map, permissionKey, TRUE, policy.expiry,
                                  [t |-> "meta", approvedAt |-> at], at),
          notified |-> "granted"]
    ELSE [response |-> [status |-> "denied", toolName |-> toolName],
          store |-> IF opts.hasStore
                    THEN setPermission(map, permissionKey, FALSE, Undefined,
                                       [t |-> "meta", deniedAt |-> at], at)
                    ELSE map,
          notified |-> "denied"]

\* handlePermissionResponse(toolName, parameters, approved, context, securityPolicy,
\* opts).  Returns the payload, the Map after the call and the notification
\* fired.  handlePermissionResponseAt is the part of it from `if (approved)` on.
handlePermissionResponseAt(opts, map, at, toolName, approved, policy, permissionKey) ==
    IF approved
    THEN [response |-> [status |-> "success", toolName |-> toolName],
          store |-> IF opts.hasStore
                    THEN setPermission(map, permissionKey, TRUE, policy.expiry,
                                       [t |-> "meta", approvedAt |-> at], at)
                    ELSE map,
          notified |-> "granted"]
    ELSE [response |-> [status |-> "denied", toolName |-> toolName],
          store |-> IF opts.hasStore
                    THEN setPermission(map, permissionKey, FALSE, Undefined,
                                       [t |-> "meta", deniedAt |-> at], at)
                    ELSE map,
          notified |-> "denied"]

handlePermissionResponseFrom(opts, map, at, toolName, approved, resolved) ==
    handlePermissionResponseAt(opts, map, at, toolName, approved, resolved.policy,
                               resolved.permissionKey)

handlePermissionResponse(securityPolicy, opts, map, at, toolName, parameters, approved, context) ==
    handlePermissionResponseFrom(opts, map, at, toolName, approved,
                                 responseResolution(securityPolicy, toolName, parameters,
                                                    context))


\* The environment of a call: whether the store fails (its get or set rejects)
\* and whether the observer callback the call invokes throws.  The operators
\* above are the calls in an environment where neither happens.
Envs == [storeFails : BOOLEAN, observerThrows : BOOLEAN]
Healthy == [storeFails |-> FALSE, observerThrows |-> FALSE]

S_down == <<"d", "o", "w", "n">>
S_observer == <<"o", "b", "s", "e", "r", "v", "e", "r">>
StoreError == [message |-> Str(S_down)]
ObserverError == [message |-> Str(S_observer)]

\* a variant of beforeExecutionIn that takes a failed lookup for a missing record
beforeExecutionIn_lookupFailureAsks(env, map, res) ==
    IF res.requested /\ env.observerThrows
    THEN [threw |-> TRUE, error |-> ObserverError, store |-> res.store,
          read |-> res.read, requested |-> TRUE]
    ELSE [threw |-> FALSE, error |-> NoResponse, continue |-> res.continue,
          response |-> res.response, store |-> res.store, read |-> res.read,
          requested |-> res.requested]

\* beforeExecution in environment env, res being its outcome in a healthy one:
\* `await store.getPermission(permissionKey)` is not inside a try, so a failing
\* store ends the call there with the store's error; onPermissionRequest is
\* called without a try, so a throwing observer ends the call there
beforeExecutionIn(env, map, res) ==
    IF res.read /\ env.storeFails
    THEN [threw |-> TRUE, error |-> StoreError, store |-> map,
          read |-> TRUE, requested |-> FALSE]
    ELSE IF res.requested /\ env.observerThrows
    THEN [threw |-> TRUE, error |-> ObserverError, store |-> res.store,
          read |-> res.read, requested |-> TRUE]
    ELSE [threw |-> FALSE, error |-> NoResponse, continue |-> res.continue,
          response |-> res.response, store |-> res.store, read |-> res.read,
          requested |-> res.requested]

beforeExecutionUnder(env, securityPolicy, opts, map, at, toolName, params, context) ==
    beforeExecutionIn(env, map,
                      beforeExecution(securityPolicy, opts, map, at, toolName, params,
                                      context))

\* a variant of afterExecutionUnder that records a grant for the call
afterExecutionUnder_recordsGrant(env, map, toolName, result, context) ==
    [threw |-> FALSE, error |-> NoResponse,
     value |-> afterExecution(toolName, result, context),
     store |-> MapSet(map, generatePermissionKey(getIdentifier(context), toolName,
                                                 Undefined),
                      PermissionInfo(TRUE, Undefined, 0, Undefined)),
     notified |-> "granted"]

\* hooks.afterExecution in environment env: onPermissionGranted is called
\* without a try; the Map is not touched
afterExecutionUnder(env, map, toolName, result, context) ==
    IF env.observerThrows
    THEN [threw |-> TRUE, error |-> ObserverError, value |-> NoResponse, store |-> map,
          notified |-> "granted"]
    ELSE [threw |-> FALSE, error |-> NoResponse,
          value |-> afterExecution(toolName, result, context), store |-> map,
          notified |-> "granted"]

\* handlePermissionResponse in environment env, res being its outcome in a
\* healthy one: `await store.setPermission(...)` is not inside a try and comes
\* before the notification; the notification is called without a try and comes
\* after the write
handlePermissionResponseIn(env, opts, map, res) ==
    IF opts.hasStore /\ env.storeFails
    THEN [threw |-> TRUE, error |-> StoreError, response |-> NoResponse, store |-> map,
          notified |-> "none"]
    ELSE IF env.observerThrows
    THEN [threw |-> TRUE, error |-> ObserverError, response |-> NoResponse,
          store |-> res.store, notified |-> res.notified]
    ELSE [threw |-> FALSE, error |-> NoResponse, response |-> res.response,
          store |-> res.store, notified |-> res.notified]

handlePermissionResponseUnder(env, securityPolicy, opts, map, at, toolName, parameters, approved, context) ==
    handlePermissionResponseIn(env, opts, map,
                               handlePermissionResponse(securityPolicy, opts, map, at,
                                                        toolName, parameters, approved,
                                                        context))


----------------------------------------------------------------------------
(* Bounds and inputs *)

\* Date.now() at the start, and the instants the clock takes: a whole number of
\* units after T0, and one millisecond later
T0 == 1000
MaxTicks == 1
Instants(unit) == {T0 + a + b * unit : a \in {0, 1}, b \in 0..MaxTicks}

S_u1 == <<"u", "1">>
S_Read == <<"R", "e", "a", "d">>
S_SendEmail == <<"S", "e", "n", "d", "E", "m", "a", "i", "l">>
S_Pay == <<"P", "a", "y">>
S_external == <<"e", "x", "t", "e", "r", "n", "a", "l">>

\* The policy of the application: Read needs no permission; SendEmail takes its
\* level (medium) from its category and its handling from the built-in table,
\* since defaults has no entry for medium; Pay is low, and critical when it pays
\* to "BB".
AppPolicy ==
    [tools |->
        (S_Read :> ToolMetadata("none", Undefined, Undefined))
        @@ (S_SendEmail :> ToolMetadata(NoLevel, Str(S_external), Str(<<"S", "e", "n", "d", "?">>)))
        @@ (S_Pay :> ToolMetadata("low", Undefined, Undefined)),
     categories |-> (S_external :> "medium"),
     defaults |->
        ("none" :> Handling(FALSE, Undefined, FALSE))
        @@ ("low" :> Handling(TRUE, Str(S_24h), FALSE))
        @@ ("critical" :> Handling(TRUE, Str(S_once), TRUE)),
     hasParameterRules |-> TRUE,
     parameterRules |->
        (S_Pay :> <<ParameterRule(S_to, "equals", Str(S_BB), "critical", Undefined)>>)]

Context(resourceId) == [resourceId |-> resourceId]
Request(context, toolName, params) ==
    [context |-> context, toolName |-> toolName, params |-> params]

\* the calls of the model: who calls which tool with which arguments
Requests ==
    { Request(Context(Str(S_u1)), S_Read, Obj(<<>>)),
      Request(Context(Undefined), S_SendEmail, Obj(<<>>)),
      Request(Context(Str(S_u1)), S_Pay, Obj(<<Pair(S_to, Str(S_Aa))>>)),
      Request(Context(Str(S_u1)), S_Pay, Obj(<<Pair(S_to, Str(S_BB))>>)) }

KeyOf(r) == generatePermissionKey(getIdentifier(r.context), r.toolName, r.params)
LevelOf(r) ==
    determineSecurityLevel(r.toolName, MetadataOf(AppPolicy, r.toolName), r.params, AppPolicy)
HandlingOfRequest(r) == HandlingOf(AppPolicy, LevelOf(r))

Idle == [pc |-> "idle"]
NoSut == [t |-> "none"]

----------------------------------------------------------------------------
(* The hooks over a shared MemoryPermissionStore *)

Init ==
    /\ store = EmptyMap
    /\ table = EmptyMap
    /\ now = T0
    /\ options \in {[hasStore |-> TRUE], [hasStore |-> FALSE]}
    /\ last = [op |-> "init"]
    /\ inv = Idle
    /\ sut = NoSut

\* hooks.beforeExecution(r.toolName, r.params, r.context)
BeforeExecution(r) ==
    \E res \in {beforeExecution(AppPolicy, options, store, now,
                                 r.toolName, r.params, r.context)} :
       /\ store' = res.store
       /\ last' = [op |-> "beforeExecution", request |-> r, at |-> now,
                   continue |-> res.continue, response |-> res.response,
                   read |-> res.read, requested |-> res.requested]
       /\ UNCHANGED <<table, now, options, inv, sut>>

\* handlePermissionResponse(r.toolName, r.params, approved, r.context, AppPolicy, options)
HandlePermissionResponse(r, approved) ==
    \E res \in {handlePermissionResponse(AppPolicy, options, store, now, r.toolName,
                                          r.params, approved, r.context)} :
       /\ store' = res.store
       /\ last' = [op |-> "handlePermissionResponse", request |-> r, at |-> now,
                   approved |-> approved, response |-> res.response,
                   notified |-> res.notified]
       /\ UNCHANGED <<table, now, options, inv, sut>>

\* the owner of the store removes a record: store.removePermission(key)
RemovePermission(key) ==
    /\ options.hasStore
    /\ store' = removePermission(store, key)
    /\ last' = [op |-> "removePermission", key |-> key, at |-> now]
    /\ UNCHANGED <<table, now, options, inv, sut>>

\* the cleanup timer of startPermissionCleanup: store.clearExpiredPermissions()
ClearExpiredPermissions ==
    /\ options.hasStore
    /\ store' = clearExpiredPermissions(store, now)
    /\ last' = [op |-> "clearExpiredPermissions", at |-> now]
    /\ UNCHANGED <<table, now, options, inv, sut>>

\* time passes
Tick(instants) ==
    /\ \E t \in instants : t > now /\ now' = t
    /\ last' = [op |-> "tick"]
    /\ UNCHANGED <<store, table, options, inv, sut>>

Next ==
    \/ \E r \in Requests : BeforeExecution(r)
    \/ \E r \in Requests, approved \in BOOLEAN : HandlePermissionResponse(r, approved)
    \/ \E r \in Requests : RemovePermission(KeyOf(r))
    \/ ClearExpiredPermissions
    \/ Tick(Instants(60 * 60 * 1000))

Spec == Init /\ [][Next]_vars


----------------------------------------------------------------------------
(* Properties of the hooks *)

IsBefore(l) == l.op = "beforeExecution"
IsHandle(l) == l.op = "handlePermissionResponse"

\* a record of the Map that getPermission returns at time at: present and not expired
LiveRecord(map, key, at) ==
    key \in DOMAIN map /\ (IsUndefined(map[key].expiresAt) \/ map[key].expiresAt.v >= at)

IsDenial(info) == info.granted = FALSE /\ IsUndefined(info.expiresAt)

\* C1: beforeExecution returns continue:true only if the handling of the resolved
\* level does not require permission or the store's get on the derived key
\* returned an unexpired record with granted:true; in every other case (no
\* store, no record, an expired record, a granted:false record) it returns
\* continue:false and a response with status permission_required that carries
\* the resolved level.  (An expired record is evicted by the read, so after the
\* call the record the read returned is the one the Map holds.)
C1_BeforeExecutionDecision ==
    IsBefore(last) =>
        LET r == last.request
            key == KeyOf(r)
            grantFound ==
                /\ options.hasStore
                /\ LiveRecord(store, key, last.at)
                /\ store[key].granted
        IN IF ~HandlingOfRequest(r).requirePermission \/ grantFound
           THEN last.continue
           ELSE /\ ~last.continue
                /\ last.response.status = "permission_required"
                /\ last.response.securityLevel = LevelOf(r)

\* C1 witness: a call at a level that requires permission continued on a stored grant
C1_Witness ==
    /\ IsBefore(last)
    /\ last.continue
    /\ HandlingOfRequest(last.request).requirePermission
    /\ KeyOf(last.request) \in DOMAIN store

\* C3 as stated: after handlePermissionResponse(approved = true) with a store, the
\* grant is in the store under the key of the call and a beforeExecution for the
\* same call that follows immediately returns continue:true.
C3_ApprovalThenContinue_Original ==
    (IsHandle(last) /\ last.approved /\ options.hasStore) =>
        LET r == last.request
        IN /\ KeyOf(r) \in DOMAIN store
           /\ store[KeyOf(r)].granted
           /\ beforeExecution(AppPolicy, options, store, now,
                              r.toolName, r.params, r.context).continue

\* C3 amended: the same, for a call whose resolved level does not have expiry
\* 'once' (a 'once' approval is never stored).
C3_ApprovalThenContinue ==
    (/\ IsHandle(last) /\ last.approved /\ options.hasStore
     /\ HandlingOfRequest(last.request).expiry # Str(S_once)) =>
        LET r == last.request
        IN /\ KeyOf(r) \in DOMAIN store
           /\ store[KeyOf(r)].granted
           /\ store[KeyOf(r)].grantedAt = last.at
           /\ beforeExecution(AppPolicy, options, store, now,
                              r.toolName, r.params, r.context).continue

\* C3 witness: an approval of a call that requires permission has been stored
C3_Witness ==
    /\ IsHandle(last) /\ last.approved /\ options.hasStore
    /\ HandlingOfRequest(last.request).requirePermission
    /\ HandlingOfRequest(last.request).expiry # Str(S_once)
    /\ KeyOf(last.request) \in DOMAIN store

\* C4: a call whose resolved level requires permission with expiry 'once' is
\* never let through: every beforeExecution for it returns continue:false with a
\* permission_required response, whatever approvals came before.
C4_OnceAlwaysPrompts ==
    (/\ IsBefore(last)
     /\ HandlingOfRequest(last.request).requirePermission
     /\ HandlingOfRequest(last.request).expiry = Str(S_once)) =>
        /\ ~last.continue
        /\ last.response.status = "permission_required"


\* the step conditions of C5, for a beforeExecution at a level in the set levels
C5_Step(levels) ==
    /\ (IsHandle(last') /\ ~last'.approved /\ options.hasStore) =>
            LET key == KeyOf(last'.request)
            IN /\ key \in DOMAIN store'
               /\ IsDenial(store'[key])
               /\ store'[key].grantedAt = last'.at
    /\ (/\ IsBefore(last') /\ options.hasStore
        /\ LevelOf(last'.request) \in levels
        /\ KeyOf(last'.request) \in DOMAIN store
        /\ IsDenial(store[KeyOf(last'.request)])) => ~last'.continue
    /\ \A key \in DOMAIN store :
            IsDenial(store[key]) =>
                \/ key \in DOMAIN store' /\ store'[key] = store[key]
                \/ last'.op = "removePermission" /\ last'.key = key
                \/ IsHandle(last') /\ KeyOf(last'.request) = key

\* C5 as stated: a handlePermissionResponse(approved = false) with a store leaves a
\* granted:false record without expiresAt under the key of the call (in place of
\* whatever was there), that record stays until it is removed or a response for
\* the same key overwrites it, and while it is there every beforeExecution for
\* the call returns continue:false.
C5_DenialBlocks_Original == [][C5_Step(SecurityLevel)]_vars

\* C5 amended: the same, where the beforeExecution is for a call whose resolved
\* level requires permission.
C5_DenialBlocks ==
    [][C5_Step({l \in SecurityLevel : HandlingOf(AppPolicy, l).requirePermission})]_vars

\* C5 witness: a beforeExecution at a level that requires permission was refused
\* on a stored denial, later than the denial
C5_Witness ==
    /\ IsBefore(last) /\ options.hasStore /\ ~last.continue
    /\ HandlingOfRequest(last.request).requirePermission
    /\ KeyOf(last.request) \in DOMAIN store
    /\ IsDenial(store[KeyOf(last.request)])
    /\ store[KeyOf(last.request)].grantedAt < last.at


\* the part of a resolution that C13 compares
Resolved(resolution) ==
    [securityLevel |-> resolution.securityLevel,
     expiry |-> resolution.policy.expiry,
     requirePermission |-> resolution.policy.requirePermission,
     permissionKey |-> resolution.permissionKey]

C39_NoStoreNoMemory ==
    /\ [](~options.hasStore =>
            /\ store = EmptyMap
            /\ (IsHandle(last) /\ last.approved) => last.response.status = "success"
            /\ IsBefore(last) =>
                  /\ last.continue = ~HandlingOfRequest(last.request).requirePermission
                  /\ ~last.read)
    /\ [][(/\ ~options.hasStore
           /\ IsHandle(last) /\ last.approved
           /\ IsBefore(last')
           /\ last'.request = last.request
           /\ HandlingOfRequest(last.request).requirePermission)
          => (~last'.continue /\ last'.response.status = "permission_required")]_vars

\* C39 witness: without a store, an approval of Pay was answered with success
\* and nothing was persisted
C39_Witness ==
    /\ ~options.hasStore
    /\ IsHandle(last)
    /\ last.approved
    /\ last.request.toolName = S_Pay
    /\ last.response.status = "success"
    /\ store = EmptyMap

----------------------------------------------------------------------------
(* Level resolution on its own: determineSecurityLevel over drawn policies,  *)
(* tools and argument bags                                                   *)

MaxRules == 2

S_amount == <<"a", "m", "o", "u", "n", "t">>
S_unknown == <<"u", "n", "k", "n", "o", "w", "n">>

\* the rules a policy of the model draws from
RulePool ==
    { ParameterRule(S_to, "equals", Str(S_BB), "critical", Undefined),
      ParameterRule(S_to, "contains", Str(<<"a">>), "low", Undefined),
      ParameterRule(S_amount, "greaterThan", Num(1000), "high", Undefined),
      ParameterRule(S_to, "startsWith", Str(<<"A">>), NoLevel, Str(<<"t", "o", "?">>)) }

RuleLists == UNION {[1..n -> RulePool] : n \in 0..MaxRules}

LevelArgs ==
    { Obj(<<>>), Obj(<<Pair(S_to, Str(S_Aa))>>), Obj(<<Pair(S_to, Str(S_BB))>>),
      Obj(<<Pair(S_amount, Num(2000))>>) }

\* the policy with one tool, Pay, built from a drawn input
LevelPolicy(s) ==
    [tools |-> (S_Pay :> ToolMetadata(s.explicit, s.category, Undefined)),
     categories |-> (S_external :> s.categoryLevel),
     defaults |-> AppPolicy.defaults,
     hasParameterRules |-> s.hasParameterRules,
     parameterRules |-> (S_Pay :> s.rules)]

InitLevel ==
    /\ sut \in [t : {"level"},
                explicit : MaybeLevel,
                category : {Undefined, Str(S_external), Str(S_unknown)},
                categoryLevel : SecurityLevel,
                hasParameterRules : BOOLEAN,
                rules : RuleLists,
                args : LevelArgs]
    /\ last = [op |-> "init"]
    /\ store = EmptyMap /\ table = EmptyMap /\ now = T0
    /\ options = [hasStore |-> FALSE] /\ inv = Idle

\* determineSecurityLevel("Pay", policy.tools["Pay"] || {}, args, policy)
ResolveLevel ==
    /\ last.op = "init"
    /\ LET policy == LevelPolicy(sut)
       IN last' = [op |-> "determineSecurityLevel",
                   result |-> determineSecurityLevel(S_Pay, MetadataOf(policy, S_Pay),
                                                     sut.args, policy)]
    /\ UNCHANGED <<store, table, now, options, inv, sut>>

NextLevel == ResolveLevel

SpecLevel == InitLevel /\ [][NextLevel]_vars

IsResolved == last.op = "determineSecurityLevel"

\* the rank of a level, none < low < medium < high < critical, and -1 for no level
Rank(level) ==
    LET order == <<"none", "low", "medium", "high", "critical">>
    IN IF level = NoLevel THEN -1 ELSE CHOOSE i \in 1..5 : order[i] = level

\* the static level of the tool: its explicit level, else the level of its category
StaticLevel(s) ==
    IF s.explicit # NoLevel THEN s.explicit
    ELSE IF s.category = Str(S_external) THEN s.categoryLevel
    ELSE NoLevel

\* the levels of the rules of the tool that match the arguments
MatchedLevels(s) ==
    IF s.hasParameterRules
    THEN {s.rules[i].securityLevel : i \in {j \in 1..Len(s.rules) :
              evaluateRule(s.rules[j], s.args.v) /\ s.rules[j].securityLevel # NoLevel}}
    ELSE {}

\* C6: the resolved level never ranks below the static level of the tool; a
\* matching rule above the static level gives the rule's level, a matching rule
\* not above a static level leaves the static level.
C6_RulesOnlyEscalate ==
    IsResolved =>
        /\ Rank(last.result) >= Rank(StaticLevel(sut))
        /\ \A l \in MatchedLevels(sut) : Rank(last.result) >= Rank(l)
        /\ (/\ StaticLevel(sut) # NoLevel
            /\ \A l \in MatchedLevels(sut) : Rank(l) <= Rank(StaticLevel(sut)))
                => last.result = StaticLevel(sut)

\* C6 witness: a rule below the static level matched and the static level stayed
C6_Witness ==
    /\ IsResolved
    /\ StaticLevel(sut) = "high"
    /\ "low" \in MatchedLevels(sut)
    /\ last.result = "high"

\* the reference of C7
ReferenceLevel(s) ==
    LET base == StaticLevel(s)
        ruleLevel ==
            IF MatchedLevels(s) = {} THEN NoLevel
            ELSE CHOOSE l \in MatchedLevels(s) : \A m \in MatchedLevels(s) : Rank(m) <= Rank(l)
        result == IF Rank(ruleLevel) > Rank(base) THEN ruleLevel ELSE base
    IN IF result = NoLevel THEN "medium" ELSE result

----------------------------------------------------------------------------
(* The stores on their own: the same calls made on a MemoryPermissionStore   *)
(* (store) and on a PgPermissionStore (table), one call at a time            *)

S_30m == <<"3", "0", "m">>
S_2h == <<"2", "h">>
S_3d == <<"3", "d">>
S_abc == <<"a", "b", "c">>

\* the expiresIn arguments of the model
ExpirySpecs ==
    { Undefined, Str(S_once), Str(S_session), Str(S_1h), Str(S_30m), Str(S_2h),
      Str(S_3d), Str(S_abc) }

StoreKeys ==
    { KeyOf(Request(Context(Str(S_u1)), S_Read, Obj(<<>>))),
      KeyOf(Request(Context(Str(S_u1)), S_Pay, Obj(<<Pair(S_to, Str(S_Aa))>>))) }

\* the instants of the clock: T0 and whole half hours after it, so that a
\* record is read before, at and after the instant it expires
StoreInstants == {T0 + b * 30 * 60 * 1000 : b \in 0..MaxTicks + 1}

InitStore ==
    /\ store = EmptyMap /\ table = EmptyMap
    /\ now = T0
    /\ last = [op |-> "init"]
    /\ options = [hasStore |-> TRUE] /\ inv = Idle /\ sut = NoSut

\* store.getPermission(key), on both stores
StoreGet(key) ==
    LET res == getPermission(store, key, now)
        pg == pgGetPermission(table, key, now)
    IN /\ store' = res.store
       /\ table' = pg.store
       /\ last' = [op |-> "getPermission", key |-> key, at |-> now,
                   had |-> Lookup(store, key), result |-> res.result,
                   pgHad |-> Lookup(table, key), pgResult |-> pg.result]
       /\ UNCHANGED <<now, options, inv, sut>>

\* store.setPermission(key, granted, expiresIn), on both stores
StoreSet(key, granted, expiresIn) ==
    /\ store' = setPermission(store, key, granted, expiresIn, Undefined, now)
    /\ table' = pgSetPermission(table, key, granted, expiresIn, Undefined, now)
    /\ last' = [op |-> "setPermission", key |-> key, at |-> now,
                granted |-> granted, expiresIn |-> expiresIn]
    /\ UNCHANGED <<now, options, inv, sut>>

\* store.removePermission(key), on both stores
StoreRemove(key) ==
    /\ store' = removePermission(store, key)
    /\ table' = pgRemovePermission(table, key)
    /\ last' = [op |-> "removePermission", key |-> key, at |-> now]
    /\ UNCHANGED <<now, options, inv, sut>>

\* store.clearExpiredPermissions(), on both stores
StoreClearExpired ==
    /\ store' = clearExpiredPermissions(store, now)
    /\ table' = pgClearExpiredPermissions(table, now)
    /\ last' = [op |-> "clearExpiredPermissions", at |-> now, had |-> DOMAIN store]
    /\ UNCHANGED <<now, options, inv, sut>>

NextStore ==
    \/ \E key \in StoreKeys : StoreGet(key)
    \/ \E key \in StoreKeys, granted \in BOOLEAN, expiresIn \in ExpirySpecs :
            StoreSet(key, granted, expiresIn)
    \/ \E key \in StoreKeys : StoreRemove(key)
    \/ StoreClearExpired
    \/ Tick(StoreInstants)

SpecStore == InitStore /\ [][NextStore]_vars


IsGet(l) == l.op = "getPermission"
IsSet(l) == l.op = "setPermission"

\* the record getPermission builds from a row
InfoOfRow(row) ==
    PermissionInfo(row.granted,
                   IF row.expires_at = Null THEN Undefined ELSE row.expires_at,
                   row.granted_at,
                   IF row.metadata = Null THEN Undefined ELSE row.metadata)

\* C8: getPermission(key) on a record whose expiresAt is earlier than the time of
\* the call returns null and leaves the store without the record; on a record
\* without expiresAt, or whose expiresAt is not earlier, it returns the record
\* and the store keeps it; on no record it returns null.  The same on both
\* stores.
C8_GetEvictsExpired ==
    IsGet(last) =>
        /\ IF last.had = Null
           THEN last.result = Null /\ last.key \notin DOMAIN store
           ELSE IF ~IsUndefined(last.had.expiresAt) /\ last.had.expiresAt.v < last.at
                THEN last.result = Null /\ last.key \notin DOMAIN store
                ELSE /\ last.result = last.had
                     /\ Lookup(store, last.key) = last.had
        /\ IF last.pgHad = Null
           THEN last.pgResult = Null /\ last.key \notin DOMAIN table
           ELSE IF last.pgHad.expires_at # Null /\ last.pgHad.expires_at.v < last.at
                THEN last.pgResult = Null /\ last.key \notin DOMAIN table
                ELSE /\ last.pgResult = InfoOfRow(last.pgHad)
                     /\ Lookup(table, last.key) = last.pgHad

\* C8 witness: a read found an expired record, answered null and removed it
C8_Witness ==
    /\ IsGet(last)
    /\ last.had # Null
    /\ ~IsUndefined(last.had.expiresAt)
    /\ last.had.expiresAt.v < last.at
    /\ last.result = Null
    /\ last.key \notin DOMAIN store

\* the periods of C9 in milliseconds: 'session' 86400000, 'Nm' N * 60000,
\* 'Nh' N * 3600000, 'Nd' N * 86400000
PeriodOf ==
    (Str(S_session) :> 86400000)
    @@ (Str(S_30m) :> 30 * 60000)
    @@ (Str(S_1h) :> 1 * 3600000)
    @@ (Str(S_2h) :> 2 * 3600000)
    @@ (Str(S_3d) :> 3 * 86400000)

\* C9: after setPermission(key, granted, spec) at time t with spec 'session',
\* 'Nm', 'Nh' or 'Nd', the store holds under key a record with that granted flag,
\* grantedAt = t and expiresAt = t + the period of spec, and a getPermission(key)
\* made at once returns it.  The same on both stores.
C9_SetStoresExpiry ==
    (IsSet(last) /\ last.expiresIn \in DOMAIN PeriodOf) =>
        LET expected == PermissionInfo(last.granted,
                                       Num(last.at + PeriodOf[last.expiresIn]),
                                       last.at, Undefined)
        IN /\ Lookup(store, last.key) = expected
           /\ getPermission(store, last.key, now).result = expected
           /\ last.key \in DOMAIN table
           /\ InfoOfRow(table[last.key]) = expected
           /\ pgGetPermission(table, last.key, now).result = expected

\* C9 witness: a record has just been written with a custom period in hours
C9_Witness ==
    /\ IsSet(last)
    /\ last.expiresIn = Str(S_2h)
    /\ last.at > T0
    /\ last.key \in DOMAIN store
    /\ store[last.key].expiresAt = Num(last.at + 7200000)

\* the step condition of C10: a setPermission with 'once' changes neither store,
\* and afterwards getPermission answers as given
C10_Step(sameAnswer) ==
    (IsSet(last') /\ last'.expiresIn = Str(S_once)) =>
        LET key == last'.key
        IN /\ store' = store
           /\ table' = table
           /\ IF sameAnswer
              THEN /\ getPermission(store', key, now').result
                        = getPermission(store, key, now).result
                   /\ pgGetPermission(table', key, now').result
                        = pgGetPermission(table, key, now).result
                   /\ key \notin DOMAIN store =>
                        getPermission(store', key, now').result = Null
                   /\ key \notin DOMAIN table =>
                        pgGetPermission(table', key, now').result = Null
              ELSE /\ getPermission(store', key, now').result = Null
                   /\ pgGetPermission(table', key, now').result = Null

\* C10 as stated: setPermission with 'once' leaves the contents of the store as
\* they were, for every key and every store, and a getPermission(key) after it
\* returns null.
C10_OnceStoresNothing_Original == [][C10_Step(FALSE)]_vars

\* C10 amended: setPermission with 'once' leaves the contents of the store as
\* they were, and a getPermission(key) after it returns what it returned before
\* the call: null when the key held no record.
C10_OnceStoresNothing == [][C10_Step(TRUE)]_vars

\* C10 witness: a 'once' grant was set on a key without a record while the store
\* held another record, and the key still has none
C10_Witness ==
    /\ IsSet(last)
    /\ last.expiresIn = Str(S_once)
    /\ last.granted
    /\ store # EmptyMap
    /\ last.key \notin DOMAIN store
    /\ last.key \notin DOMAIN table

\* the instants of the clock from t on
LaterInstants(t) == {u \in StoreInstants : u >= t}

\* the step condition of C11 for the records of the memory store
C11_KeepsMemory ==
    \A key \in DOMAIN store :
        IsUndefined(store[key].expiresAt) =>
            \/ last'.op \in {"removePermission", "setPermission"} /\ last'.key = key
            \/ /\ key \in DOMAIN store'
               /\ store'[key] = store[key]
               /\ \A u \in LaterInstants(now') :
                     getPermission(store', key, u)
                        = [result |-> store[key], store |-> store']

\* the step condition of C11 for the rows of the pg store
C11_KeepsPg ==
    \A key \in DOMAIN table :
        table[key].expires_at = Null =>
            \/ last'.op \in {"removePermission", "setPermission"} /\ last'.key = key
            \/ /\ key \in DOMAIN table'
               /\ table'[key] = table[key]
               /\ \A u \in LaterInstants(now') :
                     pgGetPermission(table', key, u)
                        = [result |-> InfoOfRow(table[key]), store |-> table']

\* C11: a record stored by setPermission without an expiry specification has no
\* expiresAt, and a record without expiresAt stays in the store unchanged through
\* every step that is not a removePermission or a setPermission of its key:
\* clearExpiredPermissions and the passing of time leave it, and getPermission
\* returns it at every later time.  The same on both stores.
C11_NoExpiryNeverExpires ==
    [][ /\ (IsSet(last') /\ IsUndefined(last'.expiresIn)) =>
              /\ Lookup(store', last'.key)
                    = PermissionInfo(last'.granted, Undefined, last'.at, Undefined)
              /\ Lookup(table', last'.key)
                    = Row(last'.granted, Null, last'.at, Null)
        /\ C11_KeepsMemory
        /\ C11_KeepsPg ]_vars

\* C11 witness: a record written without an expiry specification at the first
\* instant has survived a clearExpiredPermissions made two half hours later, next
\* to nothing else, and is still returned
C11_Witness ==
    /\ last.op = "clearExpiredPermissions"
    /\ last.at = T0 + 2 * 30 * 60 * 1000
    /\ \E key \in DOMAIN store :
          /\ IsUndefined(store[key].expiresAt)
          /\ store[key].grantedAt = T0
          /\ getPermission(store, key, now).result = store[key]
          /\ key \in DOMAIN table
          /\ table[key].expires_at = Null

\* C22: the two stores are interchangeable.  After the same sequence of
\* setPermission, getPermission, removePermission, clearExpiredPermissions
\* calls and clock steps, getPermission(key) returns null on both or a record
\* on both, and the two records have the same granted flag and the same
\* expiresAt; the call leaves a record under the key in both or in neither.
C22_Interchangeable ==
    IsGet(last) =>
        /\ (last.result = Null) <=> (last.pgResult = Null)
        /\ last.result # Null =>
              /\ last.pgResult.granted = last.result.granted
              /\ last.pgResult.expiresAt = last.result.expiresAt
        /\ DOMAIN store = DOMAIN table

\* C22 witness: after a clock step, getPermission has returned on both stores a
\* record that expires, while the record of the other key has been evicted or
\* never written
C22_Witness ==
    /\ IsGet(last)
    /\ now > T0
    /\ last.result # Null
    /\ last.pgResult # Null
    /\ Truthy(last.result.expiresAt)
    /\ last.result.grantedAt < now
    /\ DOMAIN table = {last.key}

\* an expiresIn string that is neither 'once' nor 'session' nor of the form
\* digits followed by m, h or d
Unrecognized(expiresIn) ==
    /\ Truthy(expiresIn)
    /\ expiresIn.v \notin {S_once, S_session}
    /\ ~MatchesCustom(expiresIn.v)

\* C24: setPermission with an unrecognized expiry string is treated like a
\* grant that is not persisted: the call stores nothing, in either store, so it
\* leaves no record that a later getPermission returns.
C24_UnrecognizedNotStored ==
    [][ (IsSet(last') /\ Unrecognized(last'.expiresIn)) =>
            /\ store' = store
            /\ table' = table
      ]_vars

IsSweep(l) == l.op = "clearExpiredPermissions"

\* C25: clearExpiredPermissions removes exactly the records whose expiresAt is
\* earlier than the time of the call.  After the call each store holds the
\* records it held whose expiresAt is absent, equal to the time of the call or
\* later, each one unchanged, and no other record.
C25_SweepRemovesExactlyExpired ==
    [][ IsSweep(last') =>
            /\ DOMAIN store' =
                  {k \in DOMAIN store :
                      IsUndefined(store[k].expiresAt) \/ store[k].expiresAt.v >= now}
            /\ \A k \in DOMAIN store' : store'[k] = store[k]
            /\ DOMAIN table' =
                  {k \in DOMAIN table :
                      table[k].expires_at = Null \/ table[k].expires_at.v >= now}
            /\ \A k \in DOMAIN table' : table'[k] = table[k]
      ]_vars

\* C25 witness: a sweep has removed a record and has kept the record that
\* expires at the instant of the sweep
C25_Witness ==
    /\ IsSweep(last)
    /\ last.had # DOMAIN store
    /\ \E k \in DOMAIN store :
          /\ Truthy(store[k].expiresAt)
          /\ store[k].expiresAt.v = now
          /\ k \in DOMAIN table


----------------------------------------------------------------------------
(* The tool proxy: src/unnamed/part_012 (core/proxy.ts).  One invocation of   *)
(* the execute of a proxied tool at a time, a step for each hook awaited.     *)

\* `Tool execution not permitted for ${name}`
NotPermitted(name) ==
    [error |-> [t |-> "text", about |-> name, text |-> "Tool execution not permitted for"]]

\* new Error(`Tool ${name} does not have an execute method`)
NoExecuteMethod(name) ==
    [message |-> [t |-> "text", about |-> name, text |-> "does not have an execute method"]]

\* whether beforeResult.response is a value that `||` keeps
HasResponse(response) ==
    /\ response # NoResponse
    /\ ("t" \in DOMAIN response) => Truthy(response)

\* a variant of the step after beforeExecution that does not look at continue
afterBefore_ignoresContinue(name, beforeResult, hasExecute) ==
    IF ~hasExecute
    THEN [pc |-> "error", returned |-> NoResponse, error |-> NoExecuteMethod(name)]
    ELSE [pc |-> "execute", returned |-> NoResponse, error |-> NoResponse]

\* execute of createProxiedTool, from the result of beforeExecution to the call
\* of tool.execute: where the invocation goes next, what it has returned, what
\* it has thrown
afterBefore(name, beforeResult, hasExecute) ==
    IF ~beforeResult.continue
    THEN [pc |-> "done",
          returned |-> IF HasResponse(beforeResult.response)
                       THEN beforeResult.response
                       ELSE NotPermitted(name),
          error |-> NoResponse]
    ELSE IF ~hasExecute
    THEN [pc |-> "error", returned |-> NoResponse, error |-> NoExecuteMethod(name)]
    ELSE [pc |-> "execute", returned |-> NoResponse, error |-> NoResponse]

S_denied == <<"d", "e", "n", "i", "e", "d">>
S_boom == <<"b", "o", "o", "m">>
S_ok == <<"o", "k">>

\* what the beforeExecution of hooks written by the application may resolve to
GenericBeforeResults ==
    { [continue |-> TRUE, response |-> NoResponse],
      [continue |-> FALSE, response |-> Obj(<<Pair(S_denied, Num(1))>>)],
      [continue |-> FALSE, response |-> NoResponse],
      [continue |-> FALSE, response |-> Str(<<>>)] }

\* what tool.execute may do: resolve to a result, or throw an Error, a string
\* or null
ToolOutcomes ==
    { [threw |-> FALSE, value |-> Obj(<<Pair(S_ok, Num(1))>>)],
      [threw |-> TRUE, value |-> [message |-> Str(S_boom)]],
      [threw |-> TRUE, value |-> Str(S_boom)],
      [threw |-> TRUE, value |-> Null] }

\* the calls made through the proxy
ProxyRequests ==
    { Request(Context(Str(S_u1)), S_Read, Obj(<<>>)),
      Request(Context(Str(S_u1)), S_Pay, Obj(<<Pair(S_to, Str(S_Aa))>>)),
      Request(Context(Str(S_u1)), S_Pay, Obj(<<Pair(S_to, Str(S_BB))>>)) }

InitProxy ==
    /\ store = EmptyMap /\ table = EmptyMap
    /\ now = T0
    /\ options = [hasStore |-> TRUE]
    /\ sut \in [t : {"proxy"}, hooks : {"permission", "generic"}, hasExecute : BOOLEAN]
    /\ inv = Idle
    /\ last = [op |-> "init"]

\* an entry of the log of an invocation: the function called and the value it
\* was given after the tool name (the arguments, the result, the error)
Called(fn, arg) == [fn |-> fn, arg |-> arg]

\* proxiedTools[r.toolName].execute({context: r.params, ...r.context}) is called
ProxyCall(r) ==
    /\ inv.pc \in {"idle", "done", "rejected"}
    /\ inv' = [pc |-> "before", request |-> r, before |-> NoResponse,
               executed |-> FALSE, afterCalled |-> FALSE, errorCalled |-> FALSE,
               result |-> NoResponse, thrown |-> NoResponse, error |-> NoResponse,
               returned |-> NoResponse, log |-> <<>>]
    /\ last' = [op |-> "execute", request |-> r]
    /\ UNCHANGED <<store, table, now, options, sut>>

\* the step of execute after `await hooks.beforeExecution(...)`: the branch on
\* beforeResult.continue when it resolved, the catch clause when it threw
ProxyAfterBefore(before, next) ==
    IF before.threw
    THEN [inv EXCEPT !.pc = "error", !.error = before.error,
                     !.log = Append(@, Called("beforeExecution", inv.request.params))]
    ELSE [inv EXCEPT !.pc = next.pc,
                     !.log = Append(@, Called("beforeExecution", inv.request.params)),
                     !.before = [continue |-> before.continue, response |-> before.response],
                     !.returned = next.returned, !.error = next.error]

\* await hooks.beforeExecution(name, context.context, {...context, ...options})
\* resolves or throws.  The permission hooks run in any environment; hooks
\* written by the application resolve to any of GenericBeforeResults.
ProxyBefore ==
    /\ inv.pc = "before"
    /\ \/ /\ sut.hooks = "permission"
          /\ \E env \in Envs :
               \E res \in {beforeExecutionUnder(env, AppPolicy, options, store, now,
                                                 inv.request.toolName, inv.request.params,
                                                 inv.request.context)} :
                 /\ store' = res.store
                 /\ \E next \in {IF res.threw THEN NoResponse
                                  ELSE afterBefore(inv.request.toolName, res,
                                                   sut.hasExecute)} :
                       inv' = ProxyAfterBefore(res, next)
       \/ /\ sut.hooks = "generic"
          /\ \E generic \in GenericBeforeResults :
               \E next \in {afterBefore(inv.request.toolName, generic, sut.hasExecute)} :
                 inv' = ProxyAfterBefore([threw |-> FALSE, continue |-> generic.continue,
                                          response |-> generic.response], next)
          /\ store' = store
    /\ last' = [op |-> "hooks.beforeExecution"]
    /\ UNCHANGED <<table, now, options, sut>>

\* await tool.execute(context, options) resolves or throws
ProxyExecute ==
    /\ inv.pc = "execute"
    /\ \E outcome \in ToolOutcomes :
        inv' = [inv EXCEPT !.executed = TRUE,
                           !.log = Append(@, Called("tool.execute", inv.request.params)),
                           !.pc = IF outcome.threw THEN "error" ELSE "after",
                           !.result = IF outcome.threw THEN NoResponse ELSE outcome.value,
                           !.thrown = IF outcome.threw THEN outcome.value ELSE NoResponse,
                           !.error = IF outcome.threw THEN outcome.value ELSE NoResponse]
    /\ last' = [op |-> "tool.execute"]
    /\ UNCHANGED <<store, table, now, options, sut>>

\* return await hooks.afterExecution(name, result, {...context, ...options});
\* what it throws goes to the catch clause.  The permission hooks run in any
\* environment; hooks written by the application return the result or throw.
ProxyAfter ==
    /\ inv.pc = "after"
    /\ \E env \in Envs :
         \E res \in {afterExecutionUnder(
                         IF sut.hooks = "permission" THEN env
                         ELSE [env EXCEPT !.storeFails = FALSE],
                         store, inv.request.toolName, inv.result, inv.request.context)} :
           /\ store' = res.store
           /\ inv' = IF res.threw
                     THEN [inv EXCEPT !.afterCalled = TRUE, !.pc = "error",
                                      !.log = Append(@, Called("afterExecution", inv.result)),
                                      !.error = res.error]
                     ELSE [inv EXCEPT !.afterCalled = TRUE, !.pc = "done",
                                      !.log = Append(@, Called("afterExecution", inv.result)),
                                      !.returned = res.value]
    /\ last' = [op |-> "hooks.afterExecution"]
    /\ UNCHANGED <<table, now, options, sut>>

\* catch (error): return await hooks.onError(name, error, {...context, ...options});
\* what onError throws is thrown by execute
ProxyError ==
    /\ inv.pc = "error"
    /\ \E res \in {onError(inv.request.toolName, inv.error, inv.request.context)} :
         inv' = IF res.threw
                THEN [inv EXCEPT !.errorCalled = TRUE, !.pc = "rejected",
                                 !.log = Append(@, Called("onError", inv.error)),
                                 !.error = res.error]
                ELSE [inv EXCEPT !.errorCalled = TRUE, !.pc = "done",
                                 !.log = Append(@, Called("onError", inv.error)),
                                 !.returned = res.value]
    /\ last' = [op |-> "hooks.onError"]
    /\ UNCHANGED <<store, table, now, options, sut>>

\* the user answers a permission request of the permission hooks
ProxyRespond(r, approved) ==
    /\ sut.hooks = "permission"
    /\ HandlePermissionResponse(r, approved)

NextProxy ==
    \/ \E r \in ProxyRequests : ProxyCall(r)
    \/ ProxyBefore
    \/ ProxyExecute
    \/ ProxyAfter
    \/ ProxyError
    \/ \E r \in ProxyRequests, approved \in BOOLEAN : ProxyRespond(r, approved)

SpecProxy == InitProxy /\ [][NextProxy]_vars

\* an invocation whose beforeExecution has resolved to continue:false
Refused == inv.pc \notin {"idle", "before"} /\ inv.before # NoResponse /\ ~inv.before.continue

\* C2 as stated: when beforeExecution returns continue:false, the execute of the
\* wrapped tool is not invoked, afterExecution is not called, and the proxy
\* returns the response of beforeExecution.
C2_RefusedNeverExecutes_Original ==
    Refused =>
        /\ ~inv.executed
        /\ ~inv.afterCalled
        /\ inv.pc = "done"
        /\ inv.returned = inv.before.response

\* C2 amended: ... and the proxy returns the response of beforeExecution when it
\* has one, and otherwise the object {error: "Tool execution not permitted for
\* <name>"}.
C2_RefusedNeverExecutes ==
    Refused =>
        /\ ~inv.executed
        /\ ~inv.afterCalled
        /\ ~inv.errorCalled
        /\ inv.pc = "done"
        /\ inv.returned = IF HasResponse(inv.before.response)
                          THEN inv.before.response
                          ELSE NotPermitted(inv.request.toolName)

\* C2 witness: the permission hooks refused an invocation and the proxy returned
\* their permission_required response
C2_Witness ==
    /\ Refused
    /\ sut.hooks = "permission"
    /\ inv.pc = "done"
    /\ inv.returned.status = "permission_required"
    /\ ~inv.executed

\* C16: an invocation of execute of a tool proxied over the permission hooks
\* always resolves with a payload and never rejects, whatever fails in it: the
\* lookup in the store, an observer callback, the wrapped tool throwing any
\* value, or afterExecution.
C16_ExecuteNeverRejects ==
    sut.hooks = "permission" => inv.pc # "rejected"

\* the wrapped tool of a permitted invocation has thrown an Error
ToolThrewError ==
    /\ inv.pc \notin {"idle", "before", "execute"}
    /\ inv.executed
    /\ inv.thrown # NoResponse
    /\ HasProperties(inv.thrown)
    /\ "message" \in DOMAIN inv.thrown

\* C17: when the wrapped tool throws an Error with message m in a permitted
\* invocation, afterExecution is not called, onError is called, and execute
\* resolves with {status: "error", toolName, error: m, message}; the error is not
\* thrown to the caller.
C17_ToolErrorBecomesPayload ==
    (sut.hooks = "permission" /\ ToolThrewError) =>
        /\ ~inv.afterCalled
        /\ inv.pc \in {"error", "done"}
        /\ inv.pc = "done" =>
              /\ inv.errorCalled
              /\ inv.returned.status = "error"
              /\ inv.returned.toolName = inv.request.toolName
              /\ inv.returned.error = inv.thrown.message
              /\ inv.returned.message.text = inv.thrown.message

\* C17 witness: a granted Pay threw the Error "boom" and the invocation has
\* resolved with the error payload that names it
C17_Witness ==
    /\ sut.hooks = "permission"
    /\ ToolThrewError
    /\ inv.pc = "done"
    /\ inv.request.toolName = S_Pay
    /\ inv.before.continue
    /\ inv.returned.status = "error"
    /\ inv.returned.error = Str(S_boom)


\* an invocation that beforeExecution let continue and whose tool has returned
ToolReturned ==
    /\ inv.pc \in {"after", "error", "done", "rejected"}
    /\ inv.before # NoResponse
    /\ inv.before.continue
    /\ inv.executed
    /\ inv.thrown = NoResponse

\* the calls of such an invocation up to afterExecution
HappyPath ==
    << Called("beforeExecution", inv.request.params),
       Called("tool.execute", inv.request.params),
       Called("afterExecution", inv.result) >>

\* C32 as stated: when beforeExecution returns continue:true and the tool
\* returns r, the calls are beforeExecution, the execute of the tool,
\* afterExecution(name, r), in this order and once each; onError is not called
\* and the proxy returns the result of afterExecution.
C32_HookOrder_Original ==
    (ToolReturned /\ inv.pc # "after") =>
        /\ inv.log = HappyPath
        /\ ~inv.errorCalled
        /\ inv.pc = "done"
        /\ inv.returned = inv.result

\* C32 amended: ... in this order and once each; when afterExecution returns,
\* onError is not called and the proxy returns the result of afterExecution,
\* which is r; when afterExecution throws e, onError(name, e) is called once,
\* after it, and the invocation ends with what onError returns or throws.
C32_HookOrder ==
    ToolReturned =>
        /\ inv.pc = "after" => inv.log = SubSeq(HappyPath, 1, 2)
        /\ (inv.pc = "done" /\ ~inv.errorCalled) =>
              /\ inv.log = HappyPath
              /\ inv.returned = inv.result
        /\ inv.pc = "error" =>
              /\ inv.log = HappyPath
              /\ ~inv.errorCalled
        /\ (inv.pc \in {"done", "rejected"} /\ inv.errorCalled) =>
              inv.log = Append(HappyPath, Called("onError", inv.error))
        /\ inv.pc = "rejected" => inv.errorCalled

\* C32 witness: an invocation of Pay over the permission hooks went through
\* beforeExecution, the tool and afterExecution, and returned the result of the
\* tool
C32_Witness ==
    /\ ToolReturned
    /\ sut.hooks = "permission"
    /\ inv.request.toolName = S_Pay
    /\ inv.pc = "done"
    /\ ~inv.errorCalled
    /\ Len(inv.log) = 3
    /\ inv.returned = Obj(<<Pair(S_ok, Num(1))>>)

----------------------------------------------------------------------------
(* generatePermissionKey on its own: the key of an identifier, a tool name    *)
(* and an argument bag whose properties were inserted in any order            *)

MaxPairs == 2

S_a == <<"a">>
S_b == <<"b">>

KeyNames == {S_a, S_b, S_to}
KeyValues == {Num(1), Str(S_Aa), Str(S_BB)}

\* the objects with up to MaxPairs properties, as the sequence of their
\* properties in insertion order
KeyBags ==
    UNION { { pairs \in [1..n -> [k : KeyNames, v : KeyValues]] :
                \A i, j \in 1..n : i # j => pairs[i].k # pairs[j].k }
            : n \in 0..MaxPairs }

KeyParams == {Undefined} \cup {Obj(pairs) : pairs \in KeyBags}

InitKey ==
    /\ sut \in [t : {"key"}, userId : {S_u1, S_anonymous}, toolName : {S_Pay, S_Read},
                 params : KeyParams, key : {Undefined}]
    /\ store = EmptyMap /\ table = EmptyMap
    /\ now = T0
    /\ last = [op |-> "init"]
    /\ options = [hasStore |-> TRUE] /\ inv = Idle

\* generatePermissionKey(userId, toolName, params)
DeriveKey ==
    /\ sut.key = Undefined
    /\ sut' = [sut EXCEPT !.key = Str(generatePermissionKey(sut.userId, sut.toolName,
                                                            sut.params))]
    /\ last' = [op |-> "generatePermissionKey"]
    /\ UNCHANGED <<store, table, now, options, inv>>

NextKey == DeriveKey

SpecKey == InitKey /\ [][NextKey]_vars


IsKeyed == sut.t = "key" /\ sut.key # Undefined

\* the same object with its properties inserted in every other order
Reorderings(pairs) ==
    { [i \in 1..Len(pairs) |-> pairs[f[i]]] : f \in Permutations(1..Len(pairs)) }

HexChars == {HexDigits[i] : i \in 1..16}

\* C12: generatePermissionKey(id, tool, args) is id ":" tool when args is absent
\* or has no property; otherwise it is id ":" tool ":" followed by a non-empty
\* string of hexadecimal digits, and it is the same for every insertion order of
\* the properties of args.
C12_KeyShapeAndOrder ==
    IsKeyed =>
        LET base == sut.userId \o <<":">> \o sut.toolName
            key == sut.key.v
        IN IF IsUndefined(sut.params) \/ sut.params.v = <<>>
           THEN key = base
           ELSE /\ Len(key) > Len(base) + 1
                /\ SubSeq(key, 1, Len(base) + 1) = base \o <<":">>
                /\ \A i \in Len(base) + 2 .. Len(key) : key[i] \in HexChars
                /\ \A pairs \in Reorderings(sut.params.v) :
                      generatePermissionKey(sut.userId, sut.toolName, Obj(pairs)) = key

\* C12 witness: the key of a bag of two properties inserted in descending order
\* of their names has been derived
C12_Witness ==
    /\ IsKeyed
    /\ ~IsUndefined(sut.params)
    /\ Len(sut.params.v) = 2
    /\ StrLess(sut.params.v[2].k, sut.params.v[1].k)
    /\ Len(sut.key.v) > Len(sut.userId) + Len(sut.toolName) + 2


----------------------------------------------------------------------------
(* Concurrent invocations of proxied tools over the permission hooks and one  *)
(* shared store.  An invocation gives way to the others at each await: after  *)
(* store.getPermission has been called, after beforeExecution has resolved,   *)
(* after tool.execute, after afterExecution or onError.                       *)

MaxCalls == 2

Calls == 1..MaxCalls

\* the call made concurrently: SendEmail by the anonymous caller, at level
\* medium, whose grants last an hour
RaceRequests == { Request(Context(Undefined), S_SendEmail, Obj(<<>>)) }

\* the clock of the race: T0 and instants later than the expiry of a 1h grant
RaceInstants == {T0 + b * (60 * 60 * 1000 + 1) : b \in 0..MaxTicks}

\* what tool.execute does in the race: resolve to a result or throw an Error
RaceOutcomes == {o \in ToolOutcomes : ~o.threw \/ "message" \in DOMAIN o.value}

\* whether the Map holds a record with granted:true under the key
HoldsGrant(map, key) == key \in DOMAIN map /\ map[key].granted

InitRace ==
    /\ store = EmptyMap /\ table = EmptyMap
    /\ now = T0
    /\ options = [hasStore |-> TRUE]
    /\ sut = [t |-> "race"]
    /\ inv = [i \in Calls |-> Idle]
    /\ last = [op |-> "init"]

\* execute of a proxied tool is called: beforeExecution runs up to the test of
\* policy.requirePermission.  ungranted records that no grant is stored for the
\* call, from here on.
RaceCall(i, r) ==
    /\ inv[i].pc = "idle"
    /\ \E resolved \in {beforeResolution(AppPolicy, r.toolName, r.params, r.context)} :
         inv' = [inv EXCEPT ![i] =
                    [pc |-> "before", request |-> r, resolved |-> resolved,
                     got |-> Null, read |-> FALSE,
                     ungranted |-> ~HoldsGrant(store, resolved.permissionKey),
                     executed |-> FALSE, afterCalled |-> FALSE, errorCalled |-> FALSE,
                     result |-> NoResponse, thrown |-> NoResponse,
                     error |-> NoResponse, returned |-> NoResponse]]
    /\ last' = [op |-> "execute", call |-> i]
    /\ UNCHANGED <<store, table, now, options, sut>>

\* beforeExecution calls store.getPermission(permissionKey) and awaits it
RaceRead(i) ==
    /\ inv[i].pc = "before"
    /\ ~inv[i].read
    /\ inv[i].resolved.policy.requirePermission
    /\ options.hasStore
    /\ \E got \in {getPermission(store, inv[i].resolved.permissionKey, now)} :
          /\ store' = got.store
          /\ inv' = [inv EXCEPT ![i].got = got.result, ![i].read = TRUE]
    /\ last' = [op |-> "store.getPermission", call |-> i]
    /\ UNCHANGED <<table, now, options, sut>>

\* beforeExecution resolves, and execute takes the branch on continue
RaceBefore(i) ==
    /\ inv[i].pc = "before"
    /\ inv[i].read \/ ~(inv[i].resolved.policy.requirePermission /\ options.hasStore)
    /\ \E res \in {beforeExecutionAt(options, store, inv[i].request.toolName,
                                      inv[i].request.params, inv[i].resolved,
                                      [result |-> inv[i].got, store |-> store])} :
        \E next \in {afterBefore(inv[i].request.toolName,
                                  [continue |-> res.continue, response |-> res.response],
                                  TRUE)} :
          /\ store' = res.store
          /\ inv' = [inv EXCEPT ![i].pc = next.pc, ![i].returned = next.returned,
                                ![i].error = next.error]
    /\ last' = [op |-> "hooks.beforeExecution", call |-> i]
    /\ UNCHANGED <<table, now, options, sut>>

\* await tool.execute(context, options) resolves or throws
RaceExecute(i) ==
    /\ inv[i].pc = "execute"
    /\ \E outcome \in RaceOutcomes :
        inv' = [inv EXCEPT ![i].executed = TRUE,
                           ![i].pc = IF outcome.threw THEN "error" ELSE "after",
                           ![i].result = IF outcome.threw THEN NoResponse ELSE outcome.value,
                           ![i].thrown = IF outcome.threw THEN outcome.value ELSE NoResponse,
                           ![i].error = IF outcome.threw THEN outcome.value ELSE NoResponse]
    /\ last' = [op |-> "tool.execute", call |-> i]
    /\ UNCHANGED <<store, table, now, options, sut>>

\* return await hooks.afterExecution(name, result, ...)
RaceAfter(i) ==
    /\ inv[i].pc = "after"
    /\ inv' = [inv EXCEPT ![i].afterCalled = TRUE, ![i].pc = "done",
                          ![i].returned = afterExecution(inv[i].request.toolName,
                                                         inv[i].result,
                                                         inv[i].request.context)]
    /\ last' = [op |-> "hooks.afterExecution", call |-> i]
    /\ UNCHANGED <<store, table, now, options, sut>>

\* catch (error): return await hooks.onError(name, error, ...)
RaceError(i) ==
    /\ inv[i].pc = "error"
    /\ \E res \in {onError(inv[i].request.toolName, inv[i].error,
                            inv[i].request.context)} :
         inv' = IF res.threw
                THEN [inv EXCEPT ![i].errorCalled = TRUE, ![i].pc = "rejected",
                                 ![i].error = res.error]
                ELSE [inv EXCEPT ![i].errorCalled = TRUE, ![i].pc = "done",
                                 ![i].returned = res.value]
    /\ last' = [op |-> "hooks.onError", call |-> i]
    /\ UNCHANGED <<store, table, now, options, sut>>

\* the user answers a permission request while invocations are in flight
RaceRespond(r, approved) ==
    \E res \in {handlePermissionResponse(AppPolicy, options, store, now, r.toolName,
                                          r.params, approved, r.context)} :
       /\ store' = res.store
       /\ inv' = [i \in Calls |->
                    IF inv[i].pc = "idle" THEN inv[i]
                    ELSE [inv[i] EXCEPT !.ungranted =
                            @ /\ ~HoldsGrant(res.store, inv[i].resolved.permissionKey)]]
       /\ last' = [op |-> "handlePermissionResponse", request |-> r, at |-> now,
                   approved |-> approved, response |-> res.response,
                   notified |-> res.notified]
       /\ UNCHANGED <<table, now, options, sut>>

NextRace ==
    \/ \E i \in Calls, r \in RaceRequests : RaceCall(i, r)
    \/ \E i \in Calls : RaceRead(i)
    \/ \E i \in Calls : RaceBefore(i)
    \/ \E i \in Calls : RaceExecute(i)
    \/ \E i \in Calls : RaceAfter(i)
    \/ \E i \in Calls : RaceError(i)
    \/ \E r \in RaceRequests, approved \in BOOLEAN : RaceRespond(r, approved)
    \/ Tick(RaceInstants)

SpecRace == InitRace /\ [][NextRace]_vars


\* an invocation at a level that requires permission, for whose key no grant
\* has been stored since it was called
Ungranted(call) ==
    /\ call.pc # "idle"
    /\ call.resolved.policy.requirePermission
    /\ call.ungranted

\* the steps of the invocations, as opposed to those of the user and the clock
IsCallStep(l) ==
    l.op \in {"execute", "store.getPermission", "hooks.beforeExecution", "tool.execute",
              "hooks.afterExecution", "hooks.onError"}

\* C14: in every interleaving of the steps of concurrent proxied calls, a call at
\* a level that requires permission, made and run while no grant is stored under
\* its key, does not execute the wrapped tool and returns the permission_required
\* response; and no step of a call creates or changes a record of the store (it
\* may only evict one), so the calls create no grant.
C14_ConcurrentCallsAllAsk ==
    [][ /\ \A i \in Calls :
              Ungranted(inv'[i]) =>
                  /\ ~inv'[i].executed
                  /\ inv'[i].pc \in {"before", "done"}
                  /\ inv'[i].pc = "done" =>
                        /\ inv'[i].returned.status = "permission_required"
                        /\ inv'[i].returned.toolName = inv'[i].request.toolName
                  /\ ~HoldsGrant(store', inv'[i].resolved.permissionKey)
        /\ IsCallStep(last') =>
              \A key \in DOMAIN store' : key \in DOMAIN store /\ store'[key] = store[key]
      ]_vars

\* C14 witness: every one of the concurrent calls of SendEmail for the same
\* caller has read the store and has been answered permission_required, none
\* has run the tool, and the store holds no record
C14_Witness ==
    /\ \A i \in Calls :
          /\ inv[i].pc = "done"
          /\ inv[i].request = Request(Context(Undefined), S_SendEmail, Obj(<<>>))
          /\ Ungranted(inv[i])
          /\ inv[i].read
          /\ inv[i].returned.status = "permission_required"
          /\ ~inv[i].executed
    /\ store = EmptyMap


----------------------------------------------------------------------------
(* Concurrent setPermission calls for one key, made on a                     *)
(* MemoryPermissionStore (store) and on a PgPermissionStore (table).  The    *)
(* memory store writes in the call itself; the pg store gives way at          *)
(* `await this.initialize()` and at `await this.pool.connect()`, takes        *)
(* Date.now() between the two, and writes with one statement.                 *)

SetKey == KeyOf(Request(Context(Str(S_u1)), S_Pay, Obj(<<Pair(S_to, Str(S_Aa))>>)))

\* the arguments (granted, expiresIn) of the concurrent calls
SetArgs ==
    { [granted |-> TRUE, expiresIn |-> Str(S_1h)],
      [granted |-> FALSE, expiresIn |-> Undefined],
      [granted |-> TRUE, expiresIn |-> Str(S_once)] }

InitSet ==
    /\ store = EmptyMap /\ table = EmptyMap
    /\ now = T0
    /\ options = [hasStore |-> TRUE]
    /\ sut = [t |-> "sets", memoryLast |-> 0, pgLast |-> 0]
    /\ inv = [i \in Calls |-> Idle]
    /\ last = [op |-> "init"]

\* setPermission(SetKey, granted, expiresIn, {caller: i}) is called on both
\* stores: the memory store runs to its end, the pg store to
\* `await this.initialize()`
SetCall(i, args) ==
    /\ inv[i].pc = "idle"
    /\ \E metadata \in {[t |-> "meta", caller |-> i]} :
          /\ inv' = [inv EXCEPT ![i] =
                        [pc |-> "initialize", granted |-> args.granted,
                         expiresIn |-> args.expiresIn, metadata |-> metadata,
                         memoryAt |-> now, pgAt |-> 0]]
          /\ store' = setPermission(store, SetKey, args.granted, args.expiresIn,
                                    metadata, now)
    /\ sut' = IF args.expiresIn = Str(S_once) THEN sut ELSE [sut EXCEPT !.memoryLast = i]
    /\ last' = [op |-> "setPermission", call |-> i]
    /\ UNCHANGED <<table, now, options>>

\* pg: initialize has resolved; 'once' returns; otherwise now = Date.now(),
\* expiresAt is computed and the call waits for `await this.pool.connect()`
SetPrepare(i) ==
    /\ inv[i].pc = "initialize"
    /\ inv' = IF inv[i].expiresIn = Str(S_once)
              THEN [inv EXCEPT ![i].pc = "done"]
              ELSE [inv EXCEPT ![i].pc = "connect", ![i].pgAt = now]
    /\ last' = [op |-> "pg.prepare", call |-> i]
    /\ UNCHANGED <<store, table, now, options, sut>>

\* pg: the client is connected and `await client.query(query)` runs the
\* INSERT ... ON CONFLICT statement with the values computed before
SetQuery(i) ==
    /\ inv[i].pc = "connect"
    /\ table' = pgSetPermission(table, SetKey, inv[i].granted, inv[i].expiresIn,
                                inv[i].metadata, inv[i].pgAt)
    /\ inv' = [inv EXCEPT ![i].pc = "done"]
    /\ sut' = [sut EXCEPT !.pgLast = i]
    /\ last' = [op |-> "pg.query", call |-> i]
    /\ UNCHANGED <<store, now, options>>

NextSet ==
    \/ \E i \in Calls, args \in SetArgs : SetCall(i, args)
    \/ \E i \in Calls : SetPrepare(i)
    \/ \E i \in Calls : SetQuery(i)
    \/ Tick(StoreInstants)

SpecSet == InitSet /\ [][NextSet]_vars


\* the record of a call: its granted flag, the expiresAt of its expiresIn
\* counted from the Date.now() it took, that Date.now(), its metadata
RecordOfCall(call, at) ==
    PermissionInfo(call.granted,
                   IF call.expiresIn = Str(S_1h) THEN Num(at + 60 * 60 * 1000)
                   ELSE Undefined,
                   at, call.metadata)

\* C15: with concurrent setPermission calls for one key, each store holds no
\* record while no write has been applied and afterwards exactly one record,
\* which equals in granted, expiresAt, grantedAt and metadata the record of the
\* call whose write was applied last; no field comes from another call.
C15_LastWriteWins ==
    sut.t = "sets" =>
        /\ IF sut.memoryLast = 0 THEN store = EmptyMap
           ELSE /\ DOMAIN store = {SetKey}
                /\ store[SetKey] = RecordOfCall(inv[sut.memoryLast],
                                                inv[sut.memoryLast].memoryAt)
        /\ IF sut.pgLast = 0 THEN table = EmptyMap
           ELSE /\ DOMAIN table = {SetKey}
                /\ InfoOfRow(table[SetKey]) = RecordOfCall(inv[sut.pgLast],
                                                           inv[sut.pgLast].pgAt)

\* C15 witness: two calls with different arguments have both written to the pg
\* store, and the one whose write was applied last had taken its Date.now()
\* before the other, so that the row carries the earlier granted_at
C15_Witness ==
    /\ sut.t = "sets"
    /\ sut.pgLast # 0
    /\ \E j \in Calls :
          /\ j # sut.pgLast
          /\ inv[j].pc = "done"
          /\ inv[j].expiresIn # Str(S_once)
          /\ inv[j].granted # inv[sut.pgLast].granted
          /\ inv[j].pgAt > inv[sut.pgLast].pgAt
    /\ table[SetKey].granted_at = inv[sut.pgLast].pgAt
    /\ table[SetKey].granted = inv[sut.pgLast].granted
    /\ sut.memoryLast # 0
    /\ store[SetKey].metadata.caller = sut.memoryLast


----------------------------------------------------------------------------
(* The hooks and handlePermissionResponse called directly, in every          *)
(* environment: the store may fail and an observer callback may throw        *)

\* what afterExecution is given as the result of the tool, and what onError is
\* given as the error
ToolResults == {outcome.value : outcome \in {o \in ToolOutcomes : ~o.threw}}
ToolErrors == {outcome.value : outcome \in {o \in ToolOutcomes : o.threw}}

\* the calls made on the hooks: at a level that needs no permission, at a level
\* whose grants last an hour, at a level whose grants last a day
FaultRequests ==
    { Request(Context(Str(S_u1)), S_Read, Obj(<<>>)),
      Request(Context(Undefined), S_SendEmail, Obj(<<>>)),
      Request(Context(Str(S_u1)), S_Pay, Obj(<<Pair(S_to, Str(S_Aa))>>)) }

InitFaults ==
    /\ store = EmptyMap /\ table = EmptyMap
    /\ now = T0
    /\ options \in {[hasStore |-> TRUE], [hasStore |-> FALSE]}
    /\ last = [op |-> "init"]
    /\ inv = Idle
    /\ sut = [t |-> "faults"]

\* hooks.beforeExecution(r.toolName, r.params, r.context) in environment env
FaultBefore(r, env) ==
    \E res \in {beforeExecutionUnder(env, AppPolicy, options, store, now,
                                      r.toolName, r.params, r.context)} :
       /\ store' = res.store
       /\ last' = [op |-> "beforeExecution", request |-> r, at |-> now, env |-> env,
                   had |-> Lookup(store, KeyOf(r)),
                   threw |-> res.threw, error |-> res.error,
                   returned |-> IF res.threw THEN NoResponse
                                ELSE [continue |-> res.continue,
                                      response |-> res.response],
                   read |-> res.read, requested |-> res.requested]
       /\ UNCHANGED <<table, now, options, inv, sut>>

\* hooks.afterExecution(r.toolName, result, r.context) in environment env
FaultAfter(r, result, env) ==
    \E res \in {afterExecutionUnder(env, store, r.toolName, result, r.context)} :
       /\ store' = res.store
       /\ last' = [op |-> "afterExecution", request |-> r, at |-> now, env |-> env,
                   result |-> result, threw |-> res.threw, error |-> res.error,
                   returned |-> res.value]
       /\ UNCHANGED <<table, now, options, inv, sut>>

\* hooks.onError(r.toolName, error, r.context)
FaultOnError(r, error) ==
    \E res \in {onError(r.toolName, error, r.context)} :
       /\ last' = [op |-> "onError", request |-> r, at |-> now, given |-> error,
                   threw |-> res.threw, error |-> res.error, returned |-> res.value]
       /\ UNCHANGED <<store, table, now, options, inv, sut>>

\* handlePermissionResponse(r.toolName, r.params, approved, r.context, AppPolicy,
\* options) in environment env
FaultHandle(r, approved, env) ==
    \E res \in {handlePermissionResponseUnder(env, AppPolicy, options, store, now,
                                               r.toolName, r.params, approved,
                                               r.context)} :
       /\ store' = res.store
       /\ last' = [op |-> "handlePermissionResponse", request |-> r, at |-> now,
                   env |-> env, approved |-> approved,
                   threw |-> res.threw, error |-> res.error,
                   returned |-> res.response, notified |-> res.notified]
       /\ UNCHANGED <<table, now, options, inv, sut>>

NextFaults ==
    \/ \E r \in FaultRequests, env \in Envs : FaultBefore(r, env)
    \/ \E r \in FaultRequests, result \in ToolResults, env \in Envs :
            FaultAfter(r, result, env)
    \/ \E r \in FaultRequests, error \in ToolErrors : FaultOnError(r, error)
    \/ \E r \in FaultRequests, approved \in BOOLEAN, env \in Envs :
            FaultHandle(r, approved, env)
    \/ Tick(RaceInstants)

SpecFaults == InitFaults /\ [][NextFaults]_vars


IsAfter(l) == l.op = "afterExecution"
IsOnError(l) == l.op = "onError"

\* C18: a failure of the store is not masked.  When store.getPermission fails,
\* beforeExecution fails with the store's error: it returns neither continue:true
\* nor a permission_required response, and asks nobody.  When store.setPermission
\* fails, handlePermissionResponse fails with the store's error: it returns
\* neither the success nor the denied payload and fires neither notification.
C18_StoreFailurePropagates ==
    /\ (IsBefore(last) /\ last.env.storeFails /\ options.hasStore
            /\ HandlingOfRequest(last.request).requirePermission) =>
          /\ last.threw
          /\ last.error = StoreError
          /\ last.returned = NoResponse
          /\ ~last.requested
    /\ (IsHandle(last) /\ last.env.storeFails /\ options.hasStore) =>
          /\ last.threw
          /\ last.error = StoreError
          /\ last.returned = NoResponse
          /\ last.notified = "none"

\* C18 witness: beforeExecution of a call whose grant is in the store has failed
\* with the error of the store
C18_Witness ==
    /\ IsBefore(last)
    /\ last.env.storeFails
    /\ last.had # Null
    /\ last.had.granted
    /\ last.threw
    /\ last.error = StoreError
    /\ KeyOf(last.request) \in DOMAIN store

\* C19: an exception thrown by an observer callback does not change the outcome
\* of the call that invoked it: beforeExecution still returns the
\* permission_required response, afterExecution the result of the tool,
\* handlePermissionResponse the success or the denied payload.
C19_ObserverCannotBreak ==
    ((IsBefore(last) \/ IsAfter(last) \/ IsHandle(last))
        /\ last.env.observerThrows /\ ~last.env.storeFails) =>
        /\ ~last.threw
        /\ (IsBefore(last) /\ last.requested) =>
              /\ ~last.returned.continue
              /\ last.returned.response.status = "permission_required"
        /\ IsAfter(last) => last.returned = last.result
        /\ IsHandle(last) =>
              last.returned.status = IF last.approved THEN "success" ELSE "denied"

\* C20: of beforeExecution, afterExecution, onError and
\* handlePermissionResponse, only handlePermissionResponse writes records: a
\* step of beforeExecution, afterExecution or onError creates and changes no
\* record; the only record that disappears is the expired record of the key
\* that beforeExecution has read; afterExecution and onError leave the store as
\* it is, and afterExecution returns the result it was given.
C20_OnlyResponseWrites ==
    [][ (IsBefore(last') \/ IsAfter(last') \/ IsOnError(last')) =>
            /\ \A key \in DOMAIN store' :
                  key \in DOMAIN store /\ store'[key] = store[key]
            /\ \A key \in DOMAIN store \ DOMAIN store' :
                  /\ IsBefore(last')
                  /\ last'.read
                  /\ key = KeyOf(last'.request)
                  /\ IsExpired(store[key].expiresAt, now)
            /\ (IsAfter(last') \/ IsOnError(last')) => store' = store
            /\ (IsAfter(last') /\ ~last'.threw) => last'.returned = last'.result
      ]_vars

\* C20 witness: a beforeExecution has found the expired grant of its key, has
\* evicted it and has left the other record of the store alone
C20_Witness ==
    /\ IsBefore(last)
    /\ last.had # Null
    /\ last.had.granted
    /\ KeyOf(last.request) \notin DOMAIN store
    /\ store # EmptyMap
    /\ ~last.threw
    /\ ~last.returned.continue

\* C21: when the handling of the resolved level has requirePermission false,
\* beforeExecution returns continue:true and nothing else, does not read the
\* store (so a failing store does not fail the call), leaves every record as it
\* is and does not fire the request notification (so a throwing observer does
\* not fail the call), whatever the store holds under the key of the call.
C21_NoPermissionNoStore ==
    [][ (IsBefore(last') /\ ~HandlingOfRequest(last'.request).requirePermission) =>
            /\ ~last'.threw
            /\ last'.returned = [continue |-> TRUE, response |-> NoResponse]
            /\ ~last'.read
            /\ ~last'.requested
            /\ store' = store
      ]_vars

\* C21 witness: beforeExecution of a call at a level without requirePermission
\* has returned while the store holds a denial under the key of the call, in an
\* environment where the store fails and the observer throws
C21_Witness ==
    /\ IsBefore(last)
    /\ ~HandlingOfRequest(last.request).requirePermission
    /\ last.had # Null
    /\ ~last.had.granted
    /\ last.env.storeFails
    /\ last.env.observerThrows
    /\ last.returned # NoResponse
    /\ last.returned.continue
    /\ Lookup(store, KeyOf(last.request)) = last.had

----------------------------------------------------------------------------
(* The permission tools of createPermissionTools(securityPolicy, options):    *)
(* src/src/rules/parameter-rules.ts.  The agent calls them next to the hooks  *)
(* created for the same policy and the same store.                            *)

\* resourceId || "anonymous", of the tools
ToolIdentifier(resourceId) == IF Truthy(resourceId) THEN resourceId.v ELSE S_anonymous

\* `${identifier}:${toolName}`
ToolPermissionKey(resourceId, toolName) ==
    ToolIdentifier(resourceId) \o <<":">> \o toolName

NotConfigured(toolName) ==
    [status |-> "error", toolName |-> toolName,
     message |-> [t |-> "text", about |-> toolName,
                  text |-> "Permission store is not configured"]]

\* the execute of createClearPermissionTool(opts), called with
\* {context: {toolName}, resourceId}; options.store is the Map `map` when
\* opts.hasStore, and fails when storeFails.  Returns the payload and the Map
\* after the call.
clearPermission(opts, map, toolName, resourceId, storeFails) ==
    IF ~opts.hasStore
    THEN [response |-> NotConfigured(toolName), store |-> map]
    ELSE IF storeFails
    THEN [response |-> [status |-> "error", toolName |-> toolName,
                        error |-> MessageOf(StoreError),
                        message |-> [t |-> "text", about |-> MessageOf(StoreError),
                                     text |-> "Failed to clear permission"]],
          store |-> map]
    ELSE [response |-> [status |-> "success", toolName |-> toolName,
                        message |-> [t |-> "text", about |-> toolName,
                                     text |-> "Permission cleared for"]],
          store |-> removePermission(map, ToolPermissionKey(resourceId, toolName))]

\* the execute of createPermissionResponseTool(securityPolicy, opts), called with
\* {context: {toolName, parameters, user_approved}, resourceId}
respondToPermission(securityPolicy, opts, map, at, toolName, parameters, approved, resourceId) ==
    handlePermissionResponse(securityPolicy, opts, map, at, toolName, parameters, approved,
                             Context(IF Truthy(resourceId) THEN resourceId ELSE Undefined))

\* a getIdentifier of the application, given to createPermissionHooks in its
\* options: (context) => `tenant/${context.resourceId || "anonymous"}`
TenantIdentifier(context) == <<"t", "e", "n", "a", "n", "t", "/">> \o getIdentifier(context)

\* const { getIdentifier = (context) => context.resourceId || "anonymous" } = options
getIdentifierOf(opts, context) ==
    IF opts.customIdentifier THEN TenantIdentifier(context) ELSE getIdentifier(context)

\* hooks.beforeExecution of createPermissionHooks(securityPolicy, opts), opts
\* holding a getIdentifier or not
hooksBeforeExecution(securityPolicy, opts, map, at, toolName, params, context) ==
    beforeExecutionFrom(opts, map, at, toolName, params,
        Resolution(securityPolicy,
                   MetadataOf(securityPolicy, toolName),
                   determineSecurityLevel(toolName, MetadataOf(securityPolicy, toolName),
                                          params, securityPolicy),
                   generatePermissionKey(getIdentifierOf(opts, context), toolName, params)))

\* who calls the tools
ResourceIds == {Str(S_u1), Undefined}
ToolNames == {r.toolName : r \in Requests}

InitTools ==
    /\ store = EmptyMap /\ table = EmptyMap
    /\ now = T0
    /\ options \in [hasStore : BOOLEAN, customIdentifier : BOOLEAN]
    /\ last = [op |-> "init"]
    /\ inv = Idle
    /\ sut = [t |-> "tools"]

\* hooks.beforeExecution(r.toolName, r.params, r.context)
ToolsBefore(r) ==
    \E res \in {hooksBeforeExecution(AppPolicy, options, store, now,
                                      r.toolName, r.params, r.context)} :
       /\ store' = res.store
       /\ last' = [op |-> "beforeExecution", request |-> r, at |-> now,
                   continue |-> res.continue, response |-> res.response]
       /\ UNCHANGED <<table, now, options, inv, sut>>

\* respondToPermission.execute({context: {toolName, parameters, user_approved},
\* resourceId})
ToolsRespond(r, approved) ==
    \E res \in {respondToPermission(AppPolicy, options, store, now, r.toolName, r.params,
                                     approved, r.context.resourceId)} :
       /\ store' = res.store
       /\ last' = [op |-> "respondToPermission", request |-> r, at |-> now,
                   approved |-> approved, response |-> res.response]
       /\ UNCHANGED <<table, now, options, inv, sut>>

\* clearPermission.execute({context: {toolName}, resourceId})
ToolsClear(toolName, resourceId, storeFails) ==
    \E res \in {clearPermission(options, store, toolName, resourceId, storeFails)} :
       /\ store' = res.store
       /\ last' = [op |-> "clearPermission", toolName |-> toolName,
                   resourceId |-> resourceId, at |-> now, response |-> res.response]
       /\ UNCHANGED <<table, now, options, inv, sut>>

NextTools ==
    \/ \E r \in Requests : ToolsBefore(r)
    \/ \E r \in Requests, approved \in BOOLEAN : ToolsRespond(r, approved)
    \/ \E toolName \in ToolNames, resourceId \in ResourceIds, storeFails \in BOOLEAN :
            ToolsClear(toolName, resourceId, storeFails)
    \/ Tick(Instants(60 * 60 * 1000))

SpecTools == InitTools /\ [][NextTools]_vars


IsClear(l) == l.op = "clearPermission"

\* C23: after clearPermission has returned success for a tool name and a
\* caller, no grant of that tool remains for that caller: beforeExecution of
\* every call of the tool by the caller, at a level that requires permission,
\* returns permission_required, whatever arguments the call has.
C23_ClearRemovesGrants ==
    (IsClear(last) /\ last.response.status = "success") =>
        \A r \in Requests :
            (/\ r.toolName = last.toolName
             /\ getIdentifier(r.context) = ToolIdentifier(last.resourceId)
             /\ HandlingOfRequest(r).requirePermission) =>
                LET res == beforeExecution(AppPolicy, options, store, now,
                                           r.toolName, r.params, r.context)
                IN /\ ~res.continue
                   /\ res.response.status = "permission_required"

\* C38: after an approval through the respondToPermission tool that stores a
\* grant, the hooks created for the same policy and store, with a getIdentifier
\* of the application or without, let the same call of the same caller
\* continue.
C38_ToolGrantReachesHooks ==
    (/\ last.op = "respondToPermission"
     /\ last.approved
     /\ options.hasStore
     /\ HandlingOfRequest(last.request).expiry # Str(S_once)) =>
        hooksBeforeExecution(AppPolicy, options, store, now, last.request.toolName,
                             last.request.params, last.request.context).continue

----------------------------------------------------------------------------
(* Rule evaluation on its own: evaluateRule and evaluateParameterRules over   *)
(* drawn rule tables and argument bags, and beforeExecution under a policy    *)
(* with the drawn table                                                       *)

S_critical == <<"c", "r", "i", "t", "?">>
S_medium == <<"m", "e", "d", "?">>
S_low == <<"l", "o", "w", "?">>

\* the rules a table of the model draws from: one for each condition, with and
\* without a level and a message; "(" is a pattern that does not compile;
\* "matches" is not a condition
EvalRulePool ==
    { ParameterRule(S_to, "equals", Str(S_BB), "critical", Str(S_critical)),
      ParameterRule(S_to, "contains", Str(<<"a">>), "low", Str(S_low)),
      ParameterRule(S_to, "startsWith", Str(<<"A">>), NoLevel, Str(<<"t", "o", "?">>)),
      ParameterRule(S_to, "endsWith", Str(<<"a">>), "medium", Str(S_medium)),
      ParameterRule(S_to, "regex", Str(<<"^", "A">>), "high", Undefined),
      ParameterRule(S_to, "regex", Str(<<"(">>), "critical", Str(S_critical)),
      ParameterRule(S_amount, "greaterThan", Num(1000), "high", Undefined),
      ParameterRule(S_amount, "lessThan", Num(5000), "none", Undefined),
      ParameterRule(S_to, "matches", Str(S_Aa), "critical", Str(S_critical)),
      ParameterRule(S_constructor, "contains", Str(<<"O", "b", "j", "e", "c", "t">>),
                    "critical", Undefined) }

EvalRuleLists == UNION {[1..n -> EvalRulePool] : n \in 0..MaxRules}

\* the rule table of a drawn input: rules for Pay, none for any other tool
RuleTable(s) == (S_Pay :> s.rules)

\* the policy with the drawn table: Pay is low, Read has no metadata
RulesPolicy(s) ==
    [tools |-> (S_Pay :> ToolMetadata("low", Undefined, Undefined)),
     categories |-> AppPolicy.categories,
     defaults |-> AppPolicy.defaults,
     hasParameterRules |-> TRUE,
     parameterRules |-> RuleTable(s)]

InitRules ==
    /\ sut \in [t : {"rules"},
                toolName : {S_Pay, S_Read},
                rules : EvalRuleLists,
                args : LevelArgs]
    /\ last = [op |-> "init"]
    /\ store = EmptyMap /\ table = EmptyMap /\ now = T0
    /\ options = [hasStore |-> FALSE] /\ inv = Idle

\* evaluateRule(rule, args)
RulesEvaluateRule(rule) ==
    /\ last.op = "init"
    /\ last' = [op |-> "evaluateRule", rule |-> rule,
                result |-> evaluateRule(rule, sut.args.v)]
    /\ UNCHANGED <<store, table, now, options, inv, sut>>

\* evaluateParameterRules(toolName, args, table)
RulesEvaluate ==
    /\ last.op = "init"
    /\ last' = [op |-> "evaluateParameterRules",
                result |-> evaluateParameterRules(sut.toolName, sut.args.v,
                                                  RuleTable(sut))]
    /\ UNCHANGED <<store, table, now, options, inv, sut>>

\* hooks.beforeExecution(toolName, args, {}) of the hooks created for the policy
\* with the table
RulesBefore ==
    /\ last.op = "init"
    /\ \E res \in {beforeExecution(RulesPolicy(sut), options, store, now, sut.toolName,
                                    sut.args, Context(Undefined))} :
          last' = [op |-> "beforeExecution", continue |-> res.continue,
                   response |-> res.response]
    /\ UNCHANGED <<store, table, now, options, inv, sut>>

NextRules ==
    \/ \E rule \in EvalRulePool : RulesEvaluateRule(rule)
    \/ RulesEvaluate
    \/ RulesBefore

SpecRules == InitRules /\ [][NextRules]_vars


IsEvaluated == last.op = "evaluateParameterRules"
IsRuleEvaluated == last.op = "evaluateRule"

\* the rules of the tool of the drawn input
ToolRulesOf(s) == IF s.toolName = S_Pay THEN s.rules ELSE <<>>

\* its rules that evaluate true on the arguments, in table order
MatchingRules(s) == SelectSeq(ToolRulesOf(s), LAMBDA rule : evaluateRule(rule, s.args.v))

\* the levels of the matching rules that specify one
LevelsOf(rules) ==
    {rules[i].securityLevel : i \in {j \in 1..Len(rules) : rules[j].securityLevel # NoLevel}}

WithMessage(rules) == SelectSeq(rules, LAMBDA rule : Truthy(rule.message))

\* C27: the message evaluateParameterRules returns is the message of the last
\* rule, in table order, that matches and has a message, whatever the levels of
\* the rules; it is undefined when no matching rule has a message.
C27_LastMessageWins ==
    IsEvaluated =>
        LET messages == WithMessage(MatchingRules(sut))
        IN last.result.message =
              IF messages = <<>> THEN Undefined ELSE messages[Len(messages)].message

\* C27 witness: two rules with a message matched, the first with the higher
\* level; the level returned is that of the first and the message that of the
\* second
C27_Witness ==
    /\ IsEvaluated
    /\ Len(last.result.matchedRules) = 2
    /\ Truthy(last.result.matchedRules[1].message)
    /\ Rank(last.result.matchedRules[1].securityLevel)
          > Rank(last.result.matchedRules[2].securityLevel)
    /\ last.result.securityLevel = last.result.matchedRules[1].securityLevel
    /\ last.result.message = last.result.matchedRules[2].message
    /\ last.result.message # last.result.matchedRules[1].message

\* whether the bag has a property of that name
HasParam(params, name) == \E i \in 1..Len(params) : params[i].k = name

\* C28: evaluateRule(rule, args) is false whenever args has no property named
\* rule.param, for every condition, known or not.
C28_AbsentParamNeverMatches ==
    (IsRuleEvaluated /\ ~HasParam(sut.args.v, last.rule.param)) => ~last.result

\* a regex rule whose pattern does not compile
BadPattern(rule) == rule.condition = "regex" /\ ~RegexCompiles(JsString(rule.value))

\* the drawn input without the rules whose pattern does not compile
WithoutBadPatterns(s) ==
    [s EXCEPT !.rules = SelectSeq(s.rules, LAMBDA rule : ~BadPattern(rule))]

\* C29: a regex rule whose pattern does not compile is a non-match.
\* evaluateRule returns false for it on every argument bag; evaluateParameterRules
\* returns what it returns for the table without the rule, so the rule adds no
\* level, no message and no matched rule; beforeExecution returns what it returns
\* under the policy without the rule.
C29_BadPatternIsNonMatch ==
    /\ (IsRuleEvaluated /\ BadPattern(last.rule)) => ~last.result
    /\ IsEvaluated =>
          /\ last.result = evaluateParameterRules(sut.toolName, sut.args.v,
                                                  RuleTable(WithoutBadPatterns(sut)))
          /\ \A i \in 1..Len(last.result.matchedRules) :
                ~BadPattern(last.result.matchedRules[i])
    /\ IsBefore(last) =>
          LET res == beforeExecution(RulesPolicy(WithoutBadPatterns(sut)), options, store,
                                     now, sut.toolName, sut.args, Context(Undefined))
          IN /\ last.continue = res.continue
             /\ last.response = res.response

\* C29 witness: beforeExecution has asked at level low for a call of Pay whose
\* table holds only a critical rule with a pattern that does not compile, on
\* arguments that have the parameter of the rule
C29_Witness ==
    /\ IsBefore(last)
    /\ sut.toolName = S_Pay
    /\ Len(sut.rules) = 1
    /\ BadPattern(sut.rules[1])
    /\ sut.rules[1].securityLevel = "critical"
    /\ HasParam(sut.args.v, sut.rules[1].param)
    /\ ~last.continue
    /\ last.response.securityLevel = "low"

----------------------------------------------------------------------------
(* The level functions on their own: compareSecurityLevels and                *)
(* getHigherSecurityLevel over every pair of levels, undefined included       *)

InitCompare ==
    /\ sut \in [t : {"levels"}, level1 : MaybeLevel, level2 : MaybeLevel]
    /\ last = [op |-> "init"]
    /\ store = EmptyMap /\ table = EmptyMap /\ now = T0
    /\ options = [hasStore |-> FALSE] /\ inv = Idle

\* compareSecurityLevels(level1, level2)
CompareLevels ==
    /\ last.op = "init"
    /\ last' = [op |-> "compareSecurityLevels",
                result |-> compareSecurityLevels(sut.level1, sut.level2)]
    /\ UNCHANGED <<store, table, now, options, inv, sut>>

\* getHigherSecurityLevel(level1, level2)
HigherOfLevels ==
    /\ last.op = "init"
    /\ last' = [op |-> "getHigherSecurityLevel",
                result |-> getHigherSecurityLevel(sut.level1, sut.level2)]
    /\ UNCHANGED <<store, table, now, options, inv, sut>>

NextCompare == CompareLevels \/ HigherOfLevels

SpecCompare == InitCompare /\ [][NextCompare]_vars


IsHigher == last.op = "getHigherSecurityLevel"

\* C30: getHigherSecurityLevel(L1, L2) is medium when both are undefined, the
\* defined one when exactly one is undefined, and otherwise the operand of the
\* larger rank; its rank is never below the rank of L1 or of L2, undefined
\* having rank -1.
C30_HigherLevel ==
    IsHigher =>
        /\ (sut.level1 = NoLevel /\ sut.level2 = NoLevel) => last.result = "medium"
        /\ (sut.level1 = NoLevel /\ sut.level2 # NoLevel) => last.result = sut.level2
        /\ (sut.level1 # NoLevel /\ sut.level2 = NoLevel) => last.result = sut.level1
        /\ (sut.level1 # NoLevel /\ sut.level2 # NoLevel) =>
              /\ last.result \in {sut.level1, sut.level2}
              /\ Rank(last.result) >= Rank(sut.level1)
              /\ Rank(last.result) >= Rank(sut.level2)
        /\ last.result \in SecurityLevel
        /\ Rank(last.result) >= Rank(sut.level1)
        /\ Rank(last.result) >= Rank(sut.level2)

\* C30 witness: the higher of undefined and none is none, which ranks below
\* medium
C30_Witness ==
    /\ IsHigher
    /\ sut.level1 = NoLevel
    /\ sut.level2 = "none"
    /\ last.result = "none"

----------------------------------------------------------------------------
(* Policy validation and normalisation on their own:                          *)
(* src/src/policies/policy-validator.ts, over drawn policy objects.  A policy *)
(* object is null or a record of four properties, each undefined or an        *)
(* object given by its entries in insertion order.                            *)

Bool(b) == [t |-> "bool", v |-> b]
Arr(items) == [t |-> "arr", v |-> items]

\* Object.values(SecurityLevel).includes(value)
isValidSecurityLevel(value) == value \in SecurityLevel

\* ['once', 'session'].includes(expiry) || /^(\d+)([mhd])$/.test(expiry)
isValidExpiry(expiry) == expiry \in {S_once, S_session} \/ MatchesCustom(expiry)

\* reading a property of null or undefined
CannotReadProperty(name) ==
    [name |-> "TypeError",
     message |-> [t |-> "text", about |-> name,
                  text |-> "Cannot read properties of null or undefined"]]

\* validateRule(rule): rule.param, rule.condition and rule.value are read, so a
\* rule that is null or undefined throws; a pattern that does not compile is
\* caught
validateRule(rule) ==
    IF rule \in {Null, Undefined} THEN Thrown(CannotReadProperty(<<"p", "a", "r", "a", "m">>))
    ELSE Returned(/\ rule.param # <<>>
                  /\ rule.condition # ""
                  /\ rule.value # Undefined
                  /\ (rule.condition = "regex" => RegexCompiles(rule.value.v)))

\* one message of the result, by its wording and the name it is about
Finding(text, about) == [text |-> text, about |-> about]

\* what the function has collected so far, and whether a statement threw
Collected(errors, warnings) == [threw |-> FALSE, errors |-> errors, warnings |-> warnings]
Interrupted(error) == [threw |-> TRUE, error |-> error]

\* obj[name] is truthy, for an object whose values are objects
HasEntry(entries, name) ==
    \/ \E i \in 1..Len(entries) : entries[i].k = name
    \/ name \in DOMAIN ObjectPrototype

\* for (const [toolName, metadata] of Object.entries(policy.tools))
RECURSIVE ValidateTools(_, _, _)
ValidateTools(entries, policy, acc) ==
    IF acc.threw \/ entries = <<>> THEN acc
    ELSE LET toolName == Head(entries).k
             metadata == Head(entries).v
             badLevel == /\ metadata.securityLevel # NoLevel
                         /\ ~isValidSecurityLevel(metadata.securityLevel)
             errors == IF badLevel
                       THEN Append(acc.errors, Finding("Invalid security level for tool", toolName))
                       ELSE acc.errors
         IN IF ~Truthy(metadata.category)
            THEN ValidateTools(Tail(entries), policy, Collected(errors, acc.warnings))
            ELSE IF IsUndefined(policy.categories)
            THEN Interrupted(CannotReadProperty(metadata.category.v))
            ELSE ValidateTools(Tail(entries), policy,
                    Collected(errors,
                        IF HasEntry(policy.categories.v, metadata.category.v)
                        THEN acc.warnings
                        ELSE Append(acc.warnings,
                                Finding("references undefined category", toolName))))

\* for (const [categoryName, config] of Object.entries(policy.categories))
RECURSIVE ValidateCategories(_, _)
ValidateCategories(entries, acc) ==
    IF acc.threw \/ entries = <<>> THEN acc
    ELSE ValidateCategories(Tail(entries),
            Collected(IF isValidSecurityLevel(Head(entries).v.securityLevel)
                      THEN acc.errors
                      ELSE Append(acc.errors,
                              Finding("Invalid security level for category", Head(entries).k)),
                      acc.warnings))

\* for (const level of Object.values(SecurityLevel)): a warning for each level
\* policy.defaults has no entry for
RECURSIVE MissingDefaults(_, _, _)
MissingDefaults(levels, entries, acc) ==
    IF levels = <<>> THEN acc
    ELSE MissingDefaults(Tail(levels), entries,
            Collected(acc.errors,
                      IF \E i \in 1..Len(entries) : entries[i].k = Head(levels)
                      THEN acc.warnings
                      ELSE Append(acc.warnings,
                              Finding("Missing default configuration", Head(levels)))))

\* for (const [level, config] of Object.entries(policy.defaults))
RECURSIVE ValidateDefaults(_, _)
ValidateDefaults(entries, acc) ==
    IF acc.threw \/ entries = <<>> THEN acc
    ELSE LET level == Head(entries).k
             config == Head(entries).v
             e1 == IF isValidSecurityLevel(level) THEN acc.errors
                   ELSE Append(acc.errors, Finding("Invalid security level in defaults", level))
             e2 == IF config.requirePermission.t = "bool" THEN e1
                   ELSE Append(e1, Finding("Invalid requirePermission value", level))
             e3 == IF Truthy(config.expiry) /\ ~isValidExpiry(config.expiry.v)
                   THEN Append(e2, Finding("Invalid expiry value", level))
                   ELSE e2
         IN ValidateDefaults(Tail(entries), Collected(e3, acc.warnings))

\* for (const rule of rules)
RECURSIVE ValidateRules(_, _, _)
ValidateRules(rules, toolName, acc) ==
    IF acc.threw \/ rules = <<>> THEN acc
    ELSE LET checked == validateRule(Head(rules))
         IN IF checked.threw THEN Interrupted(checked.error)
            ELSE ValidateRules(Tail(rules), toolName,
                    Collected(IF checked.value THEN acc.errors
                              ELSE Append(acc.errors,
                                      Finding("Invalid parameter rule", toolName)),
                              acc.warnings))

\* for (const [toolName, rules] of Object.entries(policy.parameterRules))
RECURSIVE ValidateParameterRules(_, _)
ValidateParameterRules(entries, acc) ==
    IF acc.threw \/ entries = <<>> THEN acc
    ELSE LET toolName == Head(entries).k
             rules == Head(entries).v
         IN IF rules.t # "arr"
            THEN ValidateParameterRules(Tail(entries),
                    Collected(Append(acc.errors,
                                  Finding("Parameter rules must be an array", toolName)),
                              acc.warnings))
            ELSE ValidateParameterRules(Tail(entries),
                    ValidateRules(rules.v, toolName, acc))

LevelsInOrder == <<"none", "low", "medium", "high", "critical">>

\* validateSecurityPolicy(policy)
validateSecurityPolicy(policy) ==
    IF policy = Null
    THEN Returned([valid |-> FALSE,
                   errors |-> <<Finding("Security policy must be an object", <<>>)>>,
                   warnings |-> <<>>])
    ELSE LET required ==
                 (IF Truthy(policy.tools) THEN <<>>
                  ELSE <<Finding("Security policy must have a tools property", <<>>)>>)
                 \o (IF Truthy(policy.categories) THEN <<>>
                     ELSE <<Finding("Security policy must have a categories property", <<>>)>>)
                 \o (IF Truthy(policy.defaults) THEN <<>>
                     ELSE <<Finding("Security policy must have a defaults property", <<>>)>>)
             a0 == Collected(required, <<>>)
             a1 == IF Truthy(policy.tools) THEN ValidateTools(policy.tools.v, policy, a0) ELSE a0
             a2 == IF a1.threw \/ ~Truthy(policy.categories) THEN a1
                   ELSE ValidateCategories(policy.categories.v, a1)
             a3 == IF a2.threw \/ ~Truthy(policy.defaults) THEN a2
                   ELSE ValidateDefaults(policy.defaults.v,
                            MissingDefaults(LevelsInOrder, policy.defaults.v, a2))
             a4 == IF a3.threw \/ ~Truthy(policy.parameterRules) THEN a3
                   ELSE ValidateParameterRules(policy.parameterRules.v, a3)
         IN IF a4.threw THEN Thrown(a4.error)
            ELSE Returned([valid |-> a4.errors = <<>>,
                           errors |-> a4.errors, warnings |-> a4.warnings])

\* normalizeSecurityPolicy(policy): tools, categories, defaults and
\* parameterRules default to {}, and every level defaults lacks is given
\* {requirePermission: level !== 'none', expiry: level === 'critical' ? 'once' : '1h'}
normalizeSecurityPolicy(policy) ==
    [tools |-> policy.tools,
     categories |-> policy.categories,
     defaults |->
        [level \in SecurityLevel |->
            IF level \in DOMAIN policy.defaults THEN policy.defaults[level]
            ELSE Handling(level # "none",
                          IF level = "critical" THEN Str(S_once) ELSE Str(S_1h),
                          FALSE)],
     hasParameterRules |-> TRUE,
     parameterRules |-> IF policy.hasParameterRules THEN policy.parameterRules ELSE EmptyMap]

S_invalid == <<"i", "n", "v", "a", "l", "i", "d">>

\* the policy objects of the model
PolicyTools ==
    {Undefined, Obj(<<>>)}
    \cup { Obj(<<Pair(S_Pay, ToolMetadata(level, category, Undefined))>>) :
             level \in {NoLevel, "low", "invalid"},
             category \in {Undefined, Str(S_external), Str(S_unknown)} }
PolicyCategories ==
    { Undefined, Obj(<<>>),
      Obj(<<Pair(S_external, [securityLevel |-> "medium"])>>),
      Obj(<<Pair(S_external, [securityLevel |-> "invalid"])>>) }
DefaultsConfig(req, exp) == [requirePermission |-> req, expiry |-> exp]
PolicyDefaults ==
    { Undefined, Obj(<<>>),
      Obj(<<Pair("none", DefaultsConfig(Bool(FALSE), Undefined)),
            Pair("low", DefaultsConfig(Bool(TRUE), Str(S_24h))),
            Pair("medium", DefaultsConfig(Bool(TRUE), Str(S_30m))),
            Pair("high", DefaultsConfig(Bool(TRUE), Str(S_session))),
            Pair("critical", DefaultsConfig(Bool(TRUE), Str(S_once)))>>),
      Obj(<<Pair("low", DefaultsConfig(Bool(TRUE), Str(S_invalid)))>>),
      Obj(<<Pair("low", DefaultsConfig(Undefined, Undefined))>>),
      Obj(<<Pair("invalid", DefaultsConfig(Bool(TRUE), Str(S_1h)))>>) }
PolicyParameterRules ==
    { Undefined,
      Obj(<<Pair(S_Pay, Str(<<"n", "o">>))>>),
      Obj(<<Pair(S_Pay, Arr(<<ParameterRule(S_to, "equals", Str(S_BB), "critical", Undefined)>>))>>),
      Obj(<<Pair(S_Pay, Arr(<<ParameterRule(<<>>, "equals", Str(S_BB), "critical", Undefined)>>))>>),
      Obj(<<Pair(S_Pay, Arr(<<ParameterRule(S_to, "regex", Str(<<"(">>), "critical", Undefined)>>))>>),
      Obj(<<Pair(S_Pay, Arr(<<Null>>))>>) }
PolicyObjects ==
    {Null} \cup [tools : PolicyTools, categories : PolicyCategories,
                 defaults : PolicyDefaults, parameterRules : PolicyParameterRules]

\* the defaults of the policies given to normalizeSecurityPolicy: each level
\* has no entry, the entry of the built-in table, or an entry of the application
DefaultsChoices == [SecurityLevel -> {"absent", "builtin", "custom"}]
DefaultsTable(choice) ==
    [level \in {l \in SecurityLevel : choice[l] # "absent"} |->
        IF choice[level] = "builtin" THEN DEFAULT_SECURITY_LEVELS[level]
        ELSE Handling(TRUE, Str(S_7d), level = "high")]
PartialPolicy(s) ==
    [AppPolicy EXCEPT !.defaults = DefaultsTable(s.choice),
                      !.hasParameterRules = s.hasParameterRules,
                      !.tools = (S_Read :> ToolMetadata(s.level, Undefined, Undefined))
                                @@ @]
PolicyRequest == Request(Context(Str(S_u1)), S_Read, Obj(<<>>))

InitPolicy ==
    /\ sut \in [t : {"policy"}, policy : PolicyObjects]
               \cup [t : {"partial"}, choice : DefaultsChoices, hasParameterRules : BOOLEAN,
                     level : SecurityLevel]
    /\ last = [op |-> "init"]
    /\ store = EmptyMap /\ table = EmptyMap /\ now = T0
    /\ options = [hasStore |-> TRUE] /\ inv = Idle

\* validateSecurityPolicy(policy)
PolicyValidate ==
    /\ last.op = "init"
    /\ sut.t = "policy"
    /\ last' = [op |-> "validateSecurityPolicy", result |-> validateSecurityPolicy(sut.policy)]
    /\ UNCHANGED <<store, table, now, options, inv, sut>>

\* normalizeSecurityPolicy(policy)
PolicyNormalize ==
    /\ last.op = "init"
    /\ sut.t = "partial"
    /\ last' = [op |-> "normalizeSecurityPolicy",
                result |-> normalizeSecurityPolicy(PartialPolicy(sut))]
    /\ UNCHANGED <<store, table, now, options, inv, sut>>

\* hooks.beforeExecution for a call of Read, which the policy puts at the drawn
\* level
PolicyBefore ==
    /\ last.op = "init"
    /\ sut.t = "partial"
    /\ \E res \in {beforeExecution(PartialPolicy(sut), options, store, now,
                                   PolicyRequest.toolName, PolicyRequest.params,
                                   PolicyRequest.context)} :
         /\ store' = res.store
         /\ last' = [op |-> "beforeExecution", result |-> res]
    /\ UNCHANGED <<table, now, options, inv, sut>>

\* handlePermissionResponse for the same call
PolicyHandle(approved) ==
    /\ last.op = "init"
    /\ sut.t = "partial"
    /\ \E res \in {handlePermissionResponse(PartialPolicy(sut), options, store, now,
                                            PolicyRequest.toolName, PolicyRequest.params,
                                            approved, PolicyRequest.context)} :
         /\ store' = res.store
         /\ last' = [op |-> "handlePermissionResponse", approved |-> approved,
                     result |-> res]
    /\ UNCHANGED <<table, now, options, inv, sut>>

NextPolicy ==
    \/ PolicyValidate
    \/ PolicyNormalize
    \/ PolicyBefore
    \/ \E approved \in BOOLEAN : PolicyHandle(approved)

SpecPolicy == InitPolicy /\ [][NextPolicy]_vars

IsValidated == last.op = "validateSecurityPolicy"

\* C31: validateSecurityPolicy returns {valid, errors, warnings} and never
\* throws, whatever the policy lacks or holds, and valid is true exactly when
\* errors is empty.
C31_ValidateNeverThrows ==
    IsValidated =>
        /\ ~last.result.threw
        /\ last.result.value.valid = (last.result.value.errors = <<>>)

IsNormalized == last.op = "normalizeSecurityPolicy"

\* C40: for every policy P and every level, the handling of the level
\* (requirePermission, expiry, requireConfirmation) under
\* normalizeSecurityPolicy(P) is its handling under P: the entries filled in
\* are those of the built-in table.
C40_NormalizeKeepsHandling ==
    IsNormalized =>
        \A level \in SecurityLevel :
            HandlingOf(last.result, level) = HandlingOf(PartialPolicy(sut), level)

----------------------------------------------------------------------------
(* The permission dialog of the React client:                                 *)
(* src/src/react/hooks/use-permission-dialog.ts.  The hook keeps one          *)
(* dialogState, with the resolve function of the promise that                 *)
(* requestPermission returned last; promises are numbered in the order they   *)
(* were created.                                                              *)

MaxRequests == 3

\* initialState
initialState ==
    [isOpen |-> FALSE, toolName |-> <<>>, reason |-> <<>>, securityLevel |-> "medium",
     resolve |-> Null]

\* what is asked: a tool name, a reason and a level
DialogRequests ==
    [toolName : {S_Read, S_Pay}, reason : {S_a, S_b}, securityLevel : {"low", "critical"}]

\* a promise that is not settled
Pending == [t |-> "pending"]

InitDialog ==
    /\ inv = [pc |-> "dialog", dialogState |-> initialState, promises |-> <<>>]
    /\ last = [op |-> "init"]
    /\ sut = [t |-> "dialog"]
    /\ store = EmptyMap /\ table = EmptyMap /\ now = T0
    /\ options = [hasStore |-> FALSE]

PendingPromises == {p \in 1..Len(inv.promises) : inv.promises[p] = Pending}

\* requestPermission(toolName, reason, securityLevel): a new promise, whose
\* resolve function replaces the one in dialogState
DialogRequest(q) ==
    /\ Len(inv.promises) < MaxRequests
    /\ inv' = [inv EXCEPT
                 !.promises = Append(@, Pending),
                 !.dialogState = [isOpen |-> TRUE, toolName |-> q.toolName,
                                  reason |-> q.reason, securityLevel |-> q.securityLevel,
                                  resolve |-> Num(Len(inv.promises) + 1)]]
    /\ last' = [op |-> "requestPermission", request |-> q,
                promise |-> Len(inv.promises) + 1, pending |-> PendingPromises]
    /\ UNCHANGED <<store, table, now, options, sut>>

\* handleApprove, handleDeny, handleClose: dialogState.resolve(value) when there
\* is one, then setDialogState(initialState)
DialogDecide(handler, value) ==
    /\ inv' = [inv EXCEPT
                 !.promises = IF inv.dialogState.resolve = Null THEN @
                              ELSE [@ EXCEPT ![inv.dialogState.resolve.v] =
                                        IF @ = Pending THEN Bool(value) ELSE @],
                 !.dialogState = initialState]
    /\ last' = [op |-> handler, value |-> value, pending |-> PendingPromises]
    /\ UNCHANGED <<store, table, now, options, sut>>

DialogApprove == DialogDecide("onApprove", TRUE)
DialogDeny == DialogDecide("onDeny", FALSE)
DialogClose == DialogDecide("onClose", FALSE)

NextDialog ==
    \/ \E q \in DialogRequests : DialogRequest(q)
    \/ DialogApprove
    \/ DialogDeny
    \/ DialogClose

SpecDialog == InitDialog /\ [][NextDialog]_vars

IsDecision == last.op \in {"onApprove", "onDeny", "onClose"}

\* C33: after requestPermission the dialog is open with the requested tool
\* name, reason and level; the next decision of the user settles every promise
\* requestPermission has returned and that was still pending, with true on
\* onApprove and false on onDeny and onClose, and leaves the dialog closed.
C33_DecisionSettles ==
    /\ last.op = "requestPermission" =>
          /\ inv.dialogState.isOpen
          /\ inv.dialogState.toolName = last.request.toolName
          /\ inv.dialogState.reason = last.request.reason
          /\ inv.dialogState.securityLevel = last.request.securityLevel
    /\ IsDecision =>
          /\ ~inv.dialogState.isOpen
          /\ \A p \in last.pending : inv.promises[p] = Bool(last.op = "onApprove")

\* the built-in handling of each level: none needs no permission; low expires
\* after 24h, medium after 1h, high with the session; critical is asked every
\* time, with a confirmation
BuiltInHandling(level) ==
    CASE level = "none" -> Handling(FALSE, Undefined, FALSE)
      [] level = "low" -> Handling(TRUE, Str(<<"2", "4", "h">>), FALSE)
      [] level = "medium" -> Handling(TRUE, Str(<<"1", "h">>), FALSE)
      [] level = "high" -> Handling(TRUE, Str(<<"s", "e", "s", "s", "i", "o", "n">>), FALSE)
      [] level = "critical" -> Handling(TRUE, Str(<<"o", "n", "c", "e">>), TRUE)

\* the handling the claim gives a level under the drawn policy
ExpectedHandling(s) ==
    IF s.choice[s.level] = "absent" THEN BuiltInHandling(s.level)
    ELSE DefaultsTable(s.choice)[s.level]

PolicyKey ==
    generatePermissionKey(getIdentifier(PolicyRequest.context), PolicyRequest.toolName,
                          PolicyRequest.params)

\* C34: under every policy whose defaults lack any of the five levels,
\* beforeExecution and handlePermissionResponse handle a call by the entry of
\* its level in defaults, and by the built-in entry when defaults has none:
\* beforeExecution lets the call through exactly when the entry requires no
\* permission and otherwise asks with the expiry and confirmation of the entry;
\* an approval is stored with the expiry of the entry.
C34_HandlingAlwaysFound ==
    /\ last.op = "beforeExecution" =>
          /\ last.result.continue = ~ExpectedHandling(sut).requirePermission
          /\ ~last.result.continue =>
                /\ last.result.response.securityLevel = sut.level
                /\ last.result.response.policy =
                       [expiry |-> ExpectedHandling(sut).expiry,
                        requireConfirmation |-> ExpectedHandling(sut).requireConfirmation]
    /\ (last.op = "handlePermissionResponse" /\ last.approved) =>
          /\ last.result.response.status = "success"
          /\ store = setPermission(EmptyMap, PolicyKey, TRUE, ExpectedHandling(sut).expiry,
                                   [t |-> "meta", approvedAt |-> now], now)
    /\ (last.op = "handlePermissionResponse" /\ ~last.approved) =>
          last.result.response.status = "denied"

\* C34 witness: defaults has no entry for high, and an approval of a call at
\* high is stored for the session (24 hours)
C34_Witness ==
    /\ last.op = "handlePermissionResponse"
    /\ last.approved
    /\ sut.level = "high"
    /\ sut.choice["high"] = "absent"
    /\ PolicyKey \in DOMAIN store
    /\ store[PolicyKey].expiresAt = Num(now + 24 * 60 * 60 * 1000)

----------------------------------------------------------------------------
(* Isolation of grants: an approval of one call through                       *)
(* handlePermissionResponse, then beforeExecution for another call, over the  *)
(* same store and policy                                                      *)

\* the argument bags of the calls: none, a string, and an object nested in an
\* argument
IsolationArgs ==
    { Obj(<<>>),
      Obj(<<Pair(S_to, Str(S_Aa))>>),
      Obj(<<Pair(S_to, Str(S_BB))>>),
      Obj(<<Pair(S_a, Obj(<<Pair(S_b, Num(1))>>))>>),
      Obj(<<Pair(S_a, Obj(<<Pair(S_b, Num(2))>>))>>) }

IsolationCalls ==
    { Request(Context(resourceId), toolName, params) :
        resourceId \in {Str(S_u1), Undefined},
        toolName \in {S_Pay, S_SendEmail},
        params \in IsolationArgs }

InitIsolation ==
    /\ sut \in [t : {"isolation"}, granted : IsolationCalls, other : IsolationCalls]
    /\ store = EmptyMap /\ table = EmptyMap /\ now = T0
    /\ options = [hasStore |-> TRUE]
    /\ inv = Idle
    /\ last = [op |-> "init"]

\* the user approves the first call
IsolationApprove ==
    /\ last.op = "init"
    /\ \E res \in {handlePermissionResponse(AppPolicy, options, store, now,
                                            sut.granted.toolName, sut.granted.params, TRUE,
                                            sut.granted.context)} :
         /\ store' = res.store
         /\ last' = [op |-> "handlePermissionResponse", response |-> res.response]
    /\ UNCHANGED <<table, now, options, inv, sut>>

\* hooks.beforeExecution for the other call
IsolationBefore ==
    /\ last.op = "handlePermissionResponse"
    /\ \E res \in {beforeExecution(AppPolicy, options, store, now, sut.other.toolName,
                                   sut.other.params, sut.other.context)} :
         /\ store' = res.store
         /\ last' = [op |-> "beforeExecution", continue |-> res.continue,
                     response |-> res.response]
    /\ UNCHANGED <<table, now, options, inv, sut>>

NextIsolation == IsolationApprove \/ IsolationBefore

SpecIsolation == InitIsolation /\ [][NextIsolation]_vars

\* the two calls have the same identifier, the same tool and the same arguments
SameCall(r1, r2) ==
    /\ getIdentifier(r1.context) = getIdentifier(r2.context)
    /\ r1.toolName = r2.toolName
    /\ r1.params = r2.params

\* C35: the grant stored for a call (identifier, tool, arguments) lets
\* beforeExecution continue only for a call with the same identifier, tool and
\* arguments; two calls that differ in any of them, also in a value nested
\* inside an argument, have different permission keys.
C35_GrantsIsolated ==
    (last.op = "beforeExecution" /\ ~SameCall(sut.granted, sut.other)) =>
        /\ ~last.continue
        /\ KeyOf(sut.granted) # KeyOf(sut.other)

----------------------------------------------------------------------------
(* PgPermissionStore over its connection pool:                                *)
(* src/src/storage/pg-permission-store.ts.  Concurrent getPermission and      *)
(* setPermission calls for one key; a call gives way at each await:           *)
(* `await this.pool.connect()`, which resolves when the pool has an idle      *)
(* client (a pool of `max` clients, without a connection timeout, which is    *)
(* the default of pg), and `await client.query(...)`, which runs one          *)
(* statement.  The store is initialised.                                      *)

MaxPool == 2

\* the row under the key at the start: none, one that has expired, one that
\* has not
PoolTables ==
    { EmptyMap,
      (SetKey :> Row(TRUE, Num(T0 - 1), 0, Null)),
      (SetKey :> Row(TRUE, Num(T0 + 60 * 60 * 1000), 0, Null)) }

InitPool ==
    /\ table \in PoolTables
    /\ store = EmptyMap
    /\ now = T0
    /\ options \in [hasStore : {TRUE}, max : 1..MaxPool]
    /\ sut = [t |-> "pool", idle |-> options.max]
    /\ inv = [i \in Calls |-> Idle]
    /\ last = [op |-> "init"]

\* getPermission(SetKey) is called and reaches `await this.pool.connect()`
PoolGetCall(i) ==
    /\ inv[i].pc = "idle"
    /\ inv' = [inv EXCEPT ![i] = [pc |-> "get.connect", fn |-> "getPermission",
                                  row |-> Null, result |-> NoResponse, held |-> 0]]
    /\ last' = [op |-> "getPermission", call |-> i]
    /\ UNCHANGED <<store, table, now, options, sut>>

\* the pool hands the call an idle client
PoolGetConnect(i) ==
    /\ inv[i].pc = "get.connect"
    /\ sut.idle > 0
    /\ sut' = [sut EXCEPT !.idle = @ - 1]
    /\ inv' = [inv EXCEPT ![i].pc = "get.select", ![i].held = 1]
    /\ last' = [op |-> "get.connect", call |-> i]
    /\ UNCHANGED <<store, table, now, options>>

\* the SELECT is answered: no row or a row that has not expired is returned and
\* the client released; for an expired row the call goes into
\* `await this.removePermission(key)`, which waits for a client of its own
PoolGetSelect(i) ==
    /\ inv[i].pc = "get.select"
    /\ \E got \in {pgGetPermission(table, SetKey, now)} :
         IF SetKey \in DOMAIN table /\ got.result = Null
         THEN /\ inv' = [inv EXCEPT ![i].pc = "remove.connect", ![i].row = table[SetKey]]
              /\ sut' = sut
         ELSE /\ inv' = [inv EXCEPT ![i].pc = "done", ![i].result = got.result,
                                    ![i].row = Lookup(table, SetKey), ![i].held = 0]
              /\ sut' = [sut EXCEPT !.idle = @ + 1]
    /\ last' = [op |-> "get.select", call |-> i]
    /\ UNCHANGED <<store, table, now, options>>

\* removePermission: the pool hands it an idle client
PoolRemoveConnect(i) ==
    /\ inv[i].pc = "remove.connect"
    /\ sut.idle > 0
    /\ sut' = [sut EXCEPT !.idle = @ - 1]
    /\ inv' = [inv EXCEPT ![i].pc = "remove.delete", ![i].held = 2]
    /\ last' = [op |-> "remove.connect", call |-> i]
    /\ UNCHANGED <<store, table, now, options>>

\* removePermission: the DELETE is answered and its client released
PoolRemoveDelete(i) ==
    /\ inv[i].pc = "remove.delete"
    /\ table' = pgRemovePermission(table, SetKey)
    /\ sut' = [sut EXCEPT !.idle = @ + 1]
    /\ inv' = [inv EXCEPT ![i].pc = "get.return", ![i].held = 1]
    /\ last' = [op |-> "remove.delete", call |-> i, deleted |-> Lookup(table, SetKey)]
    /\ UNCHANGED <<store, now, options>>

\* getPermission returns null and its finally releases the first client
PoolGetReturn(i) ==
    /\ inv[i].pc = "get.return"
    /\ sut' = [sut EXCEPT !.idle = @ + 1]
    /\ inv' = [inv EXCEPT ![i].pc = "done", ![i].result = Null, ![i].held = 0]
    /\ last' = [op |-> "get.return", call |-> i]
    /\ UNCHANGED <<store, table, now, options>>

\* setPermission(SetKey, true, expiresIn, {caller: i}) is called: Date.now() is
\* taken and the call reaches `await this.pool.connect()`
PoolSetCall(i, expiresIn) ==
    /\ inv[i].pc = "idle"
    /\ inv' = [inv EXCEPT ![i] = [pc |-> "set.connect", fn |-> "setPermission",
                                  expiresIn |-> expiresIn, pgAt |-> now, held |-> 0]]
    /\ last' = [op |-> "setPermission", call |-> i]
    /\ UNCHANGED <<store, table, now, options, sut>>

PoolSetConnect(i) ==
    /\ inv[i].pc = "set.connect"
    /\ sut.idle > 0
    /\ sut' = [sut EXCEPT !.idle = @ - 1]
    /\ inv' = [inv EXCEPT ![i].pc = "set.query", ![i].held = 1]
    /\ last' = [op |-> "set.connect", call |-> i]
    /\ UNCHANGED <<store, table, now, options>>

\* the INSERT ... ON CONFLICT is answered and the client released
PoolSetQuery(i) ==
    /\ inv[i].pc = "set.query"
    /\ table' = pgSetPermission(table, SetKey, TRUE, inv[i].expiresIn,
                                [t |-> "meta", caller |-> i], inv[i].pgAt)
    /\ sut' = [sut EXCEPT !.idle = @ + 1]
    /\ inv' = [inv EXCEPT ![i].pc = "done", ![i].held = 0]
    /\ last' = [op |-> "set.query", call |-> i]
    /\ UNCHANGED <<store, now, options>>

\* the steps of the calls under way
PoolSteps ==
    \/ \E i \in Calls : PoolGetConnect(i)
    \/ \E i \in Calls : PoolGetSelect(i)
    \/ \E i \in Calls : PoolRemoveConnect(i)
    \/ \E i \in Calls : PoolRemoveDelete(i)
    \/ \E i \in Calls : PoolGetReturn(i)
    \/ \E i \in Calls : PoolSetConnect(i)
    \/ \E i \in Calls : PoolSetQuery(i)

NextPool ==
    \/ \E i \in Calls : PoolGetCall(i)
    \/ \E i \in Calls, expiresIn \in {Str(S_1h), Undefined} : PoolSetCall(i, expiresIn)
    \/ PoolSteps

SpecPool == InitPool /\ [][NextPool]_vars

\* the event loop resumes every call whose await has resolved, and the database
\* answers every statement: a step that stays possible is taken
SpecPoolLive == InitPool /\ [][NextPool]_vars /\ WF_vars(PoolSteps)

\* C36: in every interleaving of getPermission(key) with setPermission(key)
\* calls, the row that the lazy eviction of getPermission deletes is the
\* expired row that the call has read; a row written by a concurrent
\* setPermission, which has not expired, is never deleted.
C36_EvictsOnlyWhatItRead ==
    last.op = "remove.delete" =>
        /\ last.deleted \in {Null, inv[last.call].row}
        /\ last.deleted # Null =>
              (last.deleted.expires_at.t # "null" /\ IsExpired(last.deleted.expires_at, now))

\* C37: every getPermission call that has started ends, for every pool size and
\* any number of concurrent calls.
C37_GetCompletes ==
    \A i \in Calls :
        (inv[i].pc # "idle" /\ inv[i].fn = "getPermission") ~> (inv[i].pc = "done")


====
